---- MODULE Spec2Model ----
(***************************************************************************)
(* A model of three subsystems of the ai-hedge-fund repository:            *)
(*   - the in-memory cache            (src/src/data/cache.py)              *)
(*   - the retrying LLM caller        (src/src/utils/llm.py)               *)
(*   - the agent workflow graph       (src/src/graph/builder.py,           *)
(*                                     src/src/graph/runner.py,            *)
(*                                     src/src/main.py)                    *)
(* Each subsystem has its own specification over the shared variables;     *)
(* the variables of the other subsystems stay at their initial values.     *)
(***************************************************************************)
EXTENDS Integers, Sequences, FiniteSets, TLC

VARIABLES
    cache,      \* Cache: kind -> (dict: ticker -> list of records)
    last,       \* the last completed cache call: its arguments and what it read
    nsets,      \* number of cache set calls issued so far
    was_set,        \* the (kind, ticker) slots a completed set call has stored to
    tpc,        \* per thread: position inside its set call
    targs,      \* per thread: the arguments of its set call
    texisting,  \* per thread: the value its self._<kind>_cache.get(ticker) returned
    base,       \* the cache when the first threaded set call was issued
    llm_pc,     \* call_llm: "idle", "loop" (inside the retry loop), "returned", "raised"
    llm_args,   \* call_llm: the arguments of the call
    attempt,    \* call_llm: the loop variable
    hist,       \* call_llm: what the provider did on each llm.invoke of this call
    llm_out,    \* call_llm: how the call ended and with what
    factory_calls,  \* call_llm: calls of default_factory in this call
    default_calls,  \* call_llm: calls of create_default_response in this call
    progress_log,   \* statuses handed to progress.update_status in this call
    default_values, \* create_default_response: the dict it built in this call
    run_pc,     \* run_hedge_fund: "idle", "built", "compiled", "running", "completed", "failed"
    selection,  \* run_hedge_fund: the selected_analysts argument
    graph,      \* the StateGraph build_agent_workflow returned
    active,     \* the nodes of the superstep being executed
    node_status,    \* per node of the superstep: "pending", "running", "done"
    exec_count,     \* per node: how many times it has been started in this run
    analyst_signals,    \* state["data"]["analyst_signals"]
    messages,   \* state["messages"]
    run_result, \* what run_hedge_fund returned to its caller, if it has
    run_no,     \* number of calls of run_hedge_fund that ended before this one
    prev_cache, \* the cache as the previous call of run_hedge_fund left it
    node_fetches,   \* per node: how many of its fetches have stored in the cache
    fund_pc,    \* fundamentals_agent: idle, loop, the fetch it waits for, done or failed
    fund_in,    \* its locals tickers and end_date, the state as passed, the provider
    fund_i,     \* number of tickers the loop has gone through
    fundamental_analysis,   \* the dict the loop fills
    fund_progress,          \* the calls of progress.update_status, in order
    fund_error,             \* the exception that ended the agent, if one did
    fund_state  \* the AgentState the agent was called with, as it is now

cacheVars == <<cache, last, nsets, was_set>>
threadVars == <<tpc, targs, texisting, base>>
llmVars == <<llm_pc, llm_args, attempt, hist, llm_out, factory_calls, default_calls,
             progress_log, default_values>>
runVars == <<run_pc, selection, graph, active, node_status, exec_count, analyst_signals,
             messages, run_result, run_no, prev_cache, node_fetches>>
fundVars == <<fund_pc, fund_in, fund_i, fundamental_analysis, fund_progress, fund_error,
             fund_state>>
vars == <<cache, last, nsets, was_set, tpc, targs, texisting, base,
          llm_pc, llm_args, attempt, hist, llm_out, factory_calls, default_calls,
          progress_log, default_values,
          run_pc, selection, graph, active, node_status, exec_count, analyst_signals,
          messages, run_result, run_no, prev_cache, node_fetches,
          fund_pc, fund_in, fund_i, fundamental_analysis, fund_progress, fund_error,
          fund_state>>

(***************************************************************************)
(* Bounds of the model.                                                    *)
(***************************************************************************)
MaxLen == 2        \* longest record list passed to one set call
MaxSets == 2       \* number of sequential set calls explored
MaxPrior == 1      \* sequential set calls before the threaded calls start
MaxConcLen == 1    \* longest record list passed to a threaded set call
MaxTries == 3      \* largest max_retries passed to call_llm
MaxRaw == 1        \* longest list passed to set by a caller that may omit the key
MaxTickers == 2    \* longest tickers list given to fundamentals_agent
MaxRuns == 2       \* calls of run_hedge_fund made one after the other
MaxTokens == 4     \* longest response text of the provider, in tokens
MaxBatch == 2      \* longest list of unchecked records given to one set call

(***************************************************************************)
(* Python values.                                                          *)
(***************************************************************************)
\* Optional[list]: the result of dict.get(key)
None == [isNone |-> TRUE]
Some(l) == [isNone |-> FALSE, list |-> l]

\* dict.get(key): the stored value, or None when the key is not in the dict
DictGet(d, k) == IF k \in DOMAIN d THEN Some(d[k]) ELSE None

\* d[key] = value
DictPut(d, k, v) == [x \in DOMAIN d \cup {k} |-> IF x = k THEN v ELSE d[x]]

\* all sequences over S of length at most n
RECURSIVE SeqsUpTo(_, _)
SeqsUpTo(S, n) ==
    IF n = 0 THEN {<<>>}
    ELSE LET shorter == SeqsUpTo(S, n - 1)
         IN shorter \cup {Append(s, x) : s \in {t \in shorter : Len(t) = n - 1}, x \in S}

(***************************************************************************)
(* The cache (src/src/data/cache.py).                                      *)
(***************************************************************************)
Tickers == {"AAA", "BBB"}
Kinds == {"prices", "financial_metrics"}

\* the kinds of the cache the model keeps a dict for: line_items shares its
\* key field with financial_metrics
CacheKinds == Kinds \cup {"line_items"}

\* the key_field each set_<kind> passes to _merge_data
KeyField(kind) ==
    CASE kind = "prices" -> "time"
      [] kind = "financial_metrics" -> "report_period"
      [] kind = "line_items" -> "report_period"
      [] kind = "insider_trades" -> "filing_date"
      [] kind = "company_news" -> "date"
      [] kind = "dividends" -> "ex_dividend_date"

\* a record of a kind: a mapping holding the kind's key field and a payload
Rec(kind, k, v) == [f \in {KeyField(kind), "payload"} |-> IF f = "payload" THEN v ELSE k]

\* the records the data provider hands over: two share a key value, one differs
RecordsOf(kind) == {Rec(kind, "d1", "a"), Rec(kind, "d1", "b"), Rec(kind, "d2", "a")}

DataLists(kind, n) == SeqsUpTo(RecordsOf(kind), n)

\* a mapping without the kind's key field
Keyless == [f \in {"payload"} |-> "a"]

\* what any caller may hand to set_<kind>: records with the key field or not
RawRecordsOf(kind) == {Rec(kind, "d1", "a"), Rec(kind, "d2", "a"), Keyless}

RawLists(kind, n) == SeqsUpTo(RawRecordsOf(kind), n)

\* Cache.__init__: six empty dicts
EmptyCache == [kind \in CacheKinds |-> <<>>]

\* [item for item in new_data if item[key_field] not in existing_keys]
RECURSIVE NotExisting(_, _, _)
NotExisting(new_data, existing_keys, key_field) ==
    IF new_data = <<>> THEN <<>>
    ELSE LET item == Head(new_data)
             rest == NotExisting(Tail(new_data), existing_keys, key_field)
         IN IF item[key_field] \notin existing_keys THEN <<item>> \o rest ELSE rest

\* _merge_data extending with every new item, the membership test dropped
MergeDataNoFilter(existing, new_data, key_field) ==
    IF existing.isNone \/ existing.list = <<>>
    THEN new_data
    ELSE existing.list \o new_data

\* _merge_data putting the new items in front of the existing ones
MergeDataNewFirst(existing, new_data, key_field) ==
    IF existing.isNone \/ existing.list = <<>>
    THEN new_data
    ELSE LET existing_keys == {existing.list[i][key_field] : i \in DOMAIN existing.list}
         IN NotExisting(new_data, existing_keys, key_field) \o existing.list

\* _merge_data storing the new list in place of the existing one
MergeDataOverwrite(existing, new_data, key_field) == new_data

\* Cache._merge_data
MergeData(existing, new_data, key_field) ==
    IF existing.isNone \/ existing.list = <<>>
    THEN new_data
    ELSE LET existing_keys == {existing.list[i][key_field] : i \in DOMAIN existing.list}
             merged == existing.list
         IN merged \o NotExisting(new_data, existing_keys, key_field)

\* item[key_field] raises KeyError for some item the merge looks at: the
\* items of existing (existing_keys) and of new_data (the comprehension),
\* both reached only when existing is not empty
MergeRaises(existing, new_data, key_field) ==
    /\ ~existing.isNone
    /\ existing.list # <<>>
    /\ \/ \E i \in DOMAIN existing.list : key_field \notin DOMAIN existing.list[i]
       \/ \E i \in DOMAIN new_data : key_field \notin DOMAIN new_data[i]

\* dict.get(ticker, []) in place of dict.get(ticker)
CacheGetOrEmpty(c, kind, ticker) ==
    IF ticker \in DOMAIN c[kind] THEN Some(c[kind][ticker]) ELSE Some(<<>>)

\* Cache.get_<kind>(ticker)
CacheGet(c, kind, ticker) == DictGet(c[kind], ticker)

\* a cache that keeps one dict per key field, not one per kind
CacheSetByKeyField(c, kind, ticker, data) ==
    LET merged == MergeData(CacheGet(c, kind, ticker), data, KeyField(kind))
    IN [k \in CacheKinds |->
           IF KeyField(k) = KeyField(kind) THEN DictPut(c[k], ticker, merged) ELSE c[k]]

\* the cache after Cache.set_<kind>(ticker, data) ran alone
CacheSet(c, kind, ticker, data) ==
    [c EXCEPT ![kind] =
        DictPut(c[kind], ticker, MergeData(CacheGet(c, kind, ticker), data, KeyField(kind)))]

NoCall == [op |-> "none"]

\* a set call that merges in place, record by record: when a new record
\* raises, the records merged before it are in the cache already (an existing
\* record that raises does so before anything is merged)
SetCallPartialMerge(kind, ticker, data) ==
    LET key_field == KeyField(kind)
        existing == CacheGet(cache, kind, ticker)
        raises == MergeRaises(existing, data, key_field)
        keyless == {i \in DOMAIN data : key_field \notin DOMAIN data[i]}
        bad == IF keyless = {} THEN Len(data) + 1
               ELSE CHOOSE i \in keyless : \A j \in keyless : i <= j
    IN /\ nsets < MaxSets
       /\ \A t \in DOMAIN tpc : tpc[t] = "idle"
       /\ cache' = IF ~raises THEN CacheSet(cache, kind, ticker, data)
                   ELSE IF \E i \in DOMAIN existing.list :
                               key_field \notin DOMAIN existing.list[i]
                   THEN cache
                   ELSE CacheSet(cache, kind, ticker, SubSeq(data, 1, bad - 1))
       /\ was_set' = IF raises THEN was_set ELSE was_set \cup {<<kind, ticker>>}
       /\ last' = [op |-> "set", kind |-> kind, ticker |-> ticker, data |-> data,
                   existing |-> existing, before |-> cache, raised |-> raises]
       /\ nsets' = nsets + 1
       /\ UNCHANGED <<threadVars, llmVars, runVars, fundVars>>

\* Cache.set_<kind>(ticker, data), run without interruption
SetCall(kind, ticker, data) ==
    LET raises == MergeRaises(CacheGet(cache, kind, ticker), data, KeyField(kind))
    IN /\ nsets < MaxSets
       /\ \A t \in DOMAIN tpc : tpc[t] = "idle"
       /\ cache' = IF raises THEN cache ELSE CacheSet(cache, kind, ticker, data)
       /\ was_set' = IF raises THEN was_set ELSE was_set \cup {<<kind, ticker>>}
       /\ last' = [op |-> "set", kind |-> kind, ticker |-> ticker, data |-> data,
                   existing |-> CacheGet(cache, kind, ticker), before |-> cache,
                   raised |-> raises]
       /\ nsets' = nsets + 1
    /\ UNCHANGED <<threadVars, llmVars, runVars, fundVars>>

Set ==
    \E kind \in Kinds, ticker \in Tickers :
        \E data \in DataLists(kind, MaxLen) : SetCall(kind, ticker, data)

\* set_<kind> called with whatever the caller hands over
SetRaw ==
    \E kind \in CacheKinds, ticker \in Tickers :
        \E data \in RawLists(kind, MaxRaw) : SetCall(kind, ticker, data)

\* set_<kind> called with a list of several unchecked records
SetBatch ==
    \E kind \in Kinds, ticker \in Tickers :
        \E data \in RawLists(kind, MaxBatch) : SetCall(kind, ticker, data)

\* Cache.get_<kind>(ticker): return self._<kind>_cache.get(ticker)
GetCall(kind, ticker) ==
    /\ \A t \in DOMAIN tpc : tpc[t] = "idle"
    /\ last' = [op |-> "get", kind |-> kind, ticker |-> ticker,
                result |-> CacheGet(cache, kind, ticker), before |-> cache,
                set_before |-> was_set]
    /\ UNCHANGED <<cache, nsets, was_set, threadVars, llmVars, runVars, fundVars>>

Get == \E kind \in CacheKinds, ticker \in Tickers : GetCall(kind, ticker)

(***************************************************************************)
(* Two threads calling set_<kind> on the one global cache (get_cache()).   *)
(* The statement                                                           *)
(*   self._c[ticker] = self._merge_data(self._c.get(ticker), data, key)    *)
(* first reads the dict, then runs _merge_data, then stores: another thread *)
(* can run between the read and the store.                                 *)
(***************************************************************************)
Threads == {"t1", "t2"}

NoArgs == [kind |-> "none"]

\* a thread enters set_<kind>(ticker, data)
ThreadInvoke(t) ==
    /\ tpc[t] = "idle"
    /\ \E kind \in Kinds, ticker \in Tickers :
         \E data \in DataLists(kind, MaxConcLen) :
            targs' = [targs EXCEPT ![t] = [kind |-> kind, ticker |-> ticker, data |-> data]]
    /\ tpc' = [tpc EXCEPT ![t] = "read"]
    /\ base' = IF \A u \in Threads : tpc[u] = "idle" THEN cache ELSE base
    /\ UNCHANGED <<cache, last, nsets, was_set, texisting, llmVars, runVars, fundVars>>

\* the argument self._<kind>_cache.get(ticker) is evaluated
ThreadRead(t) ==
    /\ tpc[t] = "read"
    /\ texisting' = [texisting EXCEPT ![t] = CacheGet(cache, targs[t].kind, targs[t].ticker)]
    /\ tpc' = [tpc EXCEPT ![t] = "write"]
    /\ UNCHANGED <<cache, last, nsets, was_set, targs, base, llmVars, runVars, fundVars>>

\* _merge_data runs on the value read and its result is stored
ThreadWrite(t) ==
    /\ tpc[t] = "write"
    /\ cache' = [cache EXCEPT ![targs[t].kind] =
                    DictPut(cache[targs[t].kind], targs[t].ticker,
                            MergeData(texisting[t], targs[t].data, KeyField(targs[t].kind)))]
    /\ was_set' = was_set \cup {<<targs[t].kind, targs[t].ticker>>}
    /\ tpc' = [tpc EXCEPT ![t] = "done"]
    /\ UNCHANGED <<last, nsets, targs, texisting, base, llmVars, runVars, fundVars>>

\* a set call that completes before any thread starts
PriorSet ==
    /\ nsets < MaxPrior
    /\ Set

(***************************************************************************)
(* call_llm (src/src/utils/llm.py).                                        *)
(***************************************************************************)
\* The kinds of field annotation create_default_response tells apart:
\*   "str", "float", "int"  the three plain types it compares with
\*   "dict"     a parametrized dict: __origin__ is dict
\*   "literal"  Literal[...]: __args__ holds the allowed values
\*   "generic"  another parametrized type (List[str], Optional[str]):
\*              __args__ holds types
\*   "enum"     an Enum class: its members are the options, it has no __args__
\*   "plain"    another type without __args__ (bool, a nested model)
\*   "any"      typing.Any: no __args__, and every value validates
FieldKinds ==
    {"str", "float", "int", "dict", "literal", "generic", "enum", "plain", "any"}

\* the schema of an analyst signal, and one schema per kind of field
SignalSchema ==
    [f \in {"signal", "confidence", "reasoning"} |->
        CASE f = "signal" -> "literal" [] f = "confidence" -> "float" [] OTHER -> "str"]

Schemas == {SignalSchema} \cup {[f \in {"value"} |-> k] : k \in FieldKinds}

\* a Python value, by its type
Val(type, v) == [type |-> type, v |-> v]
PyNone == Val("none", "None")

\* pydantic's validation of one field value against the field's annotation
FieldOk(kind, val) ==
    CASE kind = "str" -> val.type = "str"
      [] kind = "float" -> val.type \in {"float", "int"}
      [] kind = "int" -> val.type = "int"
      [] kind = "dict" -> val.type = "dict"
      [] kind = "literal" -> val.type = "option"
      [] kind = "generic" -> val.type = "list"
      [] kind = "enum" -> val.type = "member"
      [] kind = "plain" -> val.type = "bool"
      [] kind = "any" -> TRUE

\* model_class(**values) validates: every field present and valid
Conforms(schema, value) ==
    /\ DOMAIN value = DOMAIN schema
    /\ \A f \in DOMAIN schema : FieldOk(schema[f], value[f])

\* a value of the field's type, as a well-behaved provider answers it
ProperValue(kind, variant) ==
    CASE kind = "str" -> Val("str", variant)
      [] kind = "float" -> Val("float", variant)
      [] kind = "int" -> Val("int", variant)
      [] kind = "dict" -> Val("dict", variant)
      [] kind = "literal" -> Val("option", variant)
      [] kind = "generic" -> Val("list", variant)
      [] kind = "enum" -> Val("member", variant)
      [] kind = "plain" -> Val("bool", variant)
      [] kind = "any" -> Val("str", variant)

\* the dict a valid structured answer parses to
Answer(schema, variant) == [f \in DOMAIN schema |-> ProperValue(schema[f], variant)]

\* the value create_default_response picks for one field
DefaultValue(kind) ==
    CASE kind = "str" -> Val("str", "Error in analysis, using default")
      [] kind = "float" -> Val("float", "0.0")
      [] kind = "int" -> Val("int", "0")
      [] kind = "dict" -> Val("dict", "{}")
      [] kind = "literal" -> Val("option", "__args__[0]")
      [] kind = "generic" -> Val("class", "__args__[0]")
      [] kind = "enum" -> PyNone
      [] kind = "plain" -> PyNone
      [] kind = "any" -> PyNone

Returned(source, value) == [status |-> "returned", source |-> source, value |-> value]
Raised(source, exc) == [status |-> "raised", source |-> source, exc |-> exc]
NoOutcome == [status |-> "none"]

\* create_default_response(model_class): the default values, then
\* model_class(**default_values), which validates them
CreateDefaultResponse(schema) ==
    LET values == [f \in DOMAIN schema |-> DefaultValue(schema[f])]
    IN IF Conforms(schema, values)
       THEN Returned("default", values)
       ELSE Raised("default", "ValidationError")

\* the default_values dict create_default_response fills before it validates
DefaultValues(schema) == [f \in DOMAIN schema |-> DefaultValue(schema[f])]

\* what llm.invoke can do on one attempt
Behaviours == {"error", "malformed", "nonobject", "invalid", "valid"}
Variants == {"answer1", "answer2"}

\* the manual path: model_info is set and the model has no JSON mode
Manual(model_info) == model_info = "nojson"

\* the try body returning the schema default where it should return the answer
TryBodyDefault(model_info, schema, resp) ==
    IF resp.kind = "valid"
    THEN [ok |-> TRUE, value |-> [f \in DOMAIN schema |-> DefaultValue(schema[f])]]
    ELSE [ok |-> FALSE, exc |-> "Exception"]

\* the try body of one attempt: llm.invoke, then, on the manual path,
\* extract_json_from_response and pydantic_model(**parsed_result)
TryBody(model_info, schema, resp) ==
    IF resp.kind = "error" THEN [ok |-> FALSE, exc |-> "ProviderError"]
    ELSE IF Manual(model_info)
    THEN CASE resp.kind = "malformed" -> [ok |-> FALSE, exc |-> "ValueError"]
           [] resp.kind = "nonobject" -> [ok |-> FALSE, exc |-> "TypeError"]
           [] resp.kind = "invalid" -> [ok |-> FALSE, exc |-> "ValidationError"]
           [] resp.kind = "valid" -> [ok |-> TRUE, value |-> Answer(schema, resp.variant)]
    ELSE \* with_structured_output parses and validates inside llm.invoke
         IF resp.kind = "valid"
         THEN [ok |-> TRUE, value |-> Answer(schema, resp.variant)]
         ELSE [ok |-> FALSE, exc |-> "OutputParserException"]

\* the test of the final attempt, one attempt early
IsLastAttemptEarly(att, max_retries) == att >= max_retries - 2

\* attempt == max_retries - 1
IsLastAttempt(att, max_retries) == att = max_retries - 1

\* default_factory(): a caller's function, which may return a value of the
\* schema, return something else, or raise
CallFactory(factory, schema) ==
    CASE factory = "conforming" -> Returned("factory", Answer(schema, "factory"))
      [] factory = "nonconforming" -> Returned("factory", <<>>)
      [] factory = "raises" -> Raised("factory", "Exception")

\* the fallback with default_factory never looked at
FallbackNoFactory(factory, schema) == CreateDefaultResponse(schema)

\* the fallback of the last failed attempt: default_factory() if one was
\* passed, create_default_response(pydantic_model) otherwise
Fallback(factory, schema) ==
    IF factory # "none"
    THEN CallFactory(factory, schema)
    ELSE CreateDefaultResponse(schema)

Factories == {"none", "conforming", "nonconforming", "raises"}
ModelInfos == {"none", "json", "nojson"}
AgentNames == {"none", "risk_management_agent"}

\* progress.update_status: it stores the status, or it raises
Sinks == {"ok", "raises"}

NoLLMArgs == [max_retries |-> 0]

\* if agent_name: progress.update_status(...), handed its status, raises inside
\* the except handler
SinkRaises(agent_name, sink) == agent_name # "none" /\ sink = "raises"

\* call_llm is entered: model lookup and, off the manual path,
\* with_structured_output; the progress sink is one of sinks
LLMCallWith(sinks) ==
    /\ llm_pc = "idle"
    /\ \E mr \in -1 .. MaxTries, schema \in Schemas, factory \in Factories,
          mi \in ModelInfos, an \in AgentNames, sink \in sinks :
         llm_args' = [max_retries |-> mr, schema |-> schema, default_factory |-> factory,
                      model_info |-> mi, agent_name |-> an, sink |-> sink]
    /\ llm_pc' = "loop"
    /\ attempt' = 0
    /\ hist' = <<>>
    /\ llm_out' = NoOutcome
    /\ factory_calls' = 0
    /\ default_calls' = 0
    /\ progress_log' = <<>>
    /\ default_values' = <<>>
    /\ UNCHANGED <<cacheVars, threadVars, runVars, fundVars>>

\* call_llm with a progress sink that keeps its contract and never raises
LLMCall == LLMCallWith({"ok"})

\* call_llm with a progress sink that may raise
LLMCallAnySink == LLMCallWith(Sinks)

\* one iteration of the retry loop on the provider's response resp: the try
\* body and, when it raises, the except handler
LLMAttemptWith(resp) ==
    /\ llm_pc = "loop"
    /\ attempt < llm_args.max_retries
    /\   LET got == TryBody(llm_args.model_info, llm_args.schema, resp)
             final == IsLastAttempt(attempt, llm_args.max_retries)
             fallback == Fallback(llm_args.default_factory, llm_args.schema)
         IN /\ hist' = Append(hist, resp)
            /\ IF got.ok
               THEN /\ llm_out' = Returned("provider", got.value)
                    /\ llm_pc' = "returned"
                    /\ UNCHANGED <<attempt, factory_calls, default_calls, progress_log,
                                   default_values>>
               ELSE /\ progress_log' =
                         IF llm_args.agent_name # "none"
                         THEN Append(progress_log,
                                     [agent |-> llm_args.agent_name, retry |-> attempt + 1,
                                      of |-> llm_args.max_retries])
                         ELSE progress_log
                    /\ IF SinkRaises(llm_args.agent_name, llm_args.sink)
                       THEN /\ llm_out' = Raised("progress", "Exception")
                            /\ llm_pc' = "raised"
                            /\ UNCHANGED <<attempt, factory_calls, default_calls,
                                           default_values>>
                       ELSE IF final
                       THEN /\ llm_out' = fallback
                            /\ llm_pc' = fallback.status
                            /\ factory_calls' = factory_calls + (IF fallback.source = "factory" THEN 1 ELSE 0)
                            /\ default_calls' = default_calls + (IF fallback.source = "default" THEN 1 ELSE 0)
                            /\ default_values' = IF fallback.source = "default"
                                                 THEN DefaultValues(llm_args.schema)
                                                 ELSE default_values
                            /\ UNCHANGED attempt
                       ELSE /\ attempt' = attempt + 1
                            /\ UNCHANGED <<llm_pc, llm_out, factory_calls, default_calls,
                                           default_values>>
    /\ UNCHANGED <<llm_args, cacheVars, threadVars, runVars, fundVars>>

\* one iteration of the retry loop, the provider free in what it does
LLMAttempt ==
    \E kind \in Behaviours, variant \in Variants :
        LLMAttemptWith([kind |-> kind, variant |-> IF kind = "valid" THEN variant ELSE "none"])

(***************************************************************************)
(* extract_json_from_response (src/src/utils/llm.py).  A response text is  *)
(* a sequence of tokens: the two tags of a reasoning block, fence_json for *)
(* the opening fence ```json, fence for a bare ```, the text of a JSON     *)
(* object that fits the                                                    *)
(* schema, a word that is no JSON, and str_open and str_close, the two     *)
(* halves {"a": " and "} of a JSON object whose one string value is        *)
(* whatever stands between them.                                           *)
(***************************************************************************)
Tokens == {"<think>", "</think>", "fence_json", "fence", "obj", "word", "str_open", "str_close"}

\* tokens that may stand inside a JSON string: no quote in them
StringSafe == {"<think>", "</think>", "fence_json", "fence", "word"}

Texts(n) == SeqsUpTo(Tokens, n)

JsonObject(variant) == Val("object", variant)

\* json.loads(text): the parsed value, or PyNone for a JSONDecodeError
JsonLoads(text) ==
    IF text = <<"obj">> THEN [ok |-> TRUE, value |-> JsonObject("answer1")]
    ELSE IF /\ Len(text) >= 2
            /\ text[1] = "str_open"
            /\ text[Len(text)] = "str_close"
            /\ \A i \in 2 .. Len(text) - 1 : text[i] \in StringSafe
    THEN [ok |-> TRUE, value |-> JsonObject("wrapped")]
    ELSE [ok |-> FALSE]

\* content.find(tok-set): the first position holding one of toks, 0 if none
Find(text, toks) ==
    IF \E i \in DOMAIN text : text[i] \in toks
    THEN CHOOSE i \in DOMAIN text :
             /\ text[i] \in toks
             /\ \A j \in 1 .. i - 1 : text[j] \notin toks
    ELSE 0

\* re.sub(r"<think>.*?</think>", "", content, flags=re.DOTALL)
RECURSIVE StripThink(_)
StripThink(text) ==
    IF text = <<>> THEN <<>>
    ELSE LET rest == Tail(text)
             close == Find(rest, {"</think>"})
         IN IF Head(text) = "<think>" /\ close # 0
            THEN StripThink(SubSeq(rest, close + 1, Len(rest)))
            ELSE <<Head(text)>> \o StripThink(rest)

\* the fenced block and the whole text of a content, as the code parses them
ParseStripped(content) ==
    LET json_start == Find(content, {"fence_json"})
        json_text_start == SubSeq(content, json_start + 1, Len(content))
        \* find("fence") also matches the first three characters of ```json
        json_end == Find(json_text_start, {"fence", "fence_json"})
        block == JsonLoads(SubSeq(json_text_start, 1, json_end - 1))
        whole == JsonLoads(content)
    IN IF json_start # 0 /\ json_end # 0 /\ block.ok THEN block.value
       ELSE IF whole.ok THEN whole.value
       ELSE PyNone

\* extract_json_from_response with the reasoning blocks left in the text
ExtractJsonKeepThink(content) == ParseStripped(content)

\* extract_json_from_response(content)
ExtractJsonFromResponse(content) == ParseStripped(StripThink(content))

\* llm.invoke answered a text: what the manual path of the try body makes of it
RespOfContent(content) ==
    LET parsed == ExtractJsonFromResponse(content)
    IN [kind |-> CASE parsed = PyNone -> "malformed"
                   [] parsed = JsonObject("answer1") -> "valid"
                   [] OTHER -> "invalid",
        variant |-> IF parsed = JsonObject("answer1") THEN "answer1" ELSE "none",
        content |-> content,
        parsed |-> parsed]

\* call_llm for a model without JSON mode whose provider answers one text
ExtractCall ==
    /\ llm_pc = "idle"
    /\ \E mr \in {1, 2}, factory \in {"none", "conforming"}, content \in Texts(MaxTokens) :
         llm_args' = [max_retries |-> mr, schema |-> SignalSchema, default_factory |-> factory,
                      model_info |-> "nojson", agent_name |-> "none", sink |-> "ok",
                      content |-> content]
    /\ llm_pc' = "loop"
    /\ attempt' = 0
    /\ hist' = <<>>
    /\ llm_out' = NoOutcome
    /\ factory_calls' = 0
    /\ default_calls' = 0
    /\ progress_log' = <<>>
    /\ default_values' = <<>>
    /\ UNCHANGED <<cacheVars, threadVars, runVars, fundVars>>

\* one iteration of the retry loop on the text the provider answers
ExtractAttempt ==
    /\ "content" \in DOMAIN llm_args
    /\ LLMAttemptWith(RespOfContent(llm_args.content))

\* the loop ends without a return: the statement after the loop
LLMLoopExit ==
    /\ llm_pc = "loop"
    /\ attempt >= llm_args.max_retries
    /\ LET r == CreateDefaultResponse(llm_args.schema)
       IN /\ llm_out' = r
          /\ llm_pc' = r.status
    /\ default_calls' = default_calls + 1
    /\ default_values' = DefaultValues(llm_args.schema)
    /\ UNCHANGED <<llm_args, attempt, hist, factory_calls, progress_log, cacheVars, threadVars, runVars, fundVars>>

(***************************************************************************)
(* build_agent_workflow (src/src/graph/builder.py).                        *)
(***************************************************************************)
\* list(ANALYST_CONFIG.keys()): the registry of analysts, in its order
all_analyst_keys == <<"fundamentals", "technicals", "sentiment">>

Registered == {all_analyst_keys[i] : i \in DOMAIN all_analyst_keys}

\* identifiers a caller can select: the registered ones and one that is not
Identifiers == Registered \cup {"unknown"}

\* the selected_agents arguments: None, or a list of distinct identifiers
Selections ==
    {None} \cup
    {Some(l) : l \in {q \in SeqsUpTo(Identifiers, Cardinality(Identifiers)) :
                        \A i, j \in DOMAIN q : i # j => q[i] # q[j]}}

END == "__end__"

\* analyst_node_details[key][0]
NodeName(agent_key) == agent_key \o "_agent"

\* [agent for agent in selected_agents if agent in ANALYST_CONFIG]
RECURSIVE InConfig(_)
InConfig(selected_agents) ==
    IF selected_agents = <<>> THEN <<>>
    ELSE IF Head(selected_agents) \in Registered
         THEN <<Head(selected_agents)>> \o InConfig(Tail(selected_agents))
         ELSE InConfig(Tail(selected_agents))

\* agents_to_use without the fallback to all analysts
AgentsToUseNoFallback(selected_agents) ==
    IF selected_agents.isNone THEN all_analyst_keys ELSE InConfig(selected_agents.list)

\* agents_to_use taken from the first selected identifier only
AgentsToUseFirstOnly(selected_agents) ==
    IF selected_agents.isNone THEN all_analyst_keys
    ELSE IF selected_agents.list = <<>> THEN <<>>
    ELSE IF Head(selected_agents.list) \in Registered
         THEN <<Head(selected_agents.list)>>
         ELSE all_analyst_keys

\* agents_to_use, as lines 21-31 compute it
AgentsToUse(selected_agents) ==
    IF selected_agents.isNone
    THEN all_analyst_keys
    ELSE LET agents_to_use == InConfig(selected_agents.list)
         IN IF agents_to_use = <<>> /\ selected_agents.list # <<>>
            THEN all_analyst_keys
            ELSE agents_to_use

\* the add_node calls
WorkflowNodes(agents_to_use) ==
    {"start_node"}
      \cup {NodeName(agents_to_use[i]) : i \in DOMAIN agents_to_use}
      \cup {"risk_management_agent", "portfolio_manager"}

\* the add_edge calls with start_node wired to risk management in every case
WorkflowEdgesAlwaysDirect(agents_to_use) ==
    {<<"start_node", NodeName(agents_to_use[i])>> : i \in DOMAIN agents_to_use}
      \cup {<<NodeName(agents_to_use[i]), "risk_management_agent">> : i \in DOMAIN agents_to_use}
      \cup {<<"start_node", "risk_management_agent">>}
      \cup {<<"risk_management_agent", "portfolio_manager">>, <<"portfolio_manager", END>>}

\* the add_edge calls without the direct edge for an empty agents_to_use
WorkflowEdgesNoDirect(agents_to_use) ==
    {<<"start_node", NodeName(agents_to_use[i])>> : i \in DOMAIN agents_to_use}
      \cup {<<NodeName(agents_to_use[i]), "risk_management_agent">> : i \in DOMAIN agents_to_use}
      \cup {<<"risk_management_agent", "portfolio_manager">>, <<"portfolio_manager", END>>}

\* the add_edge calls with every analyst wired to the portfolio manager too
WorkflowEdgesAnalystsToBoth(agents_to_use) ==
    {<<"start_node", NodeName(agents_to_use[i])>> : i \in DOMAIN agents_to_use}
      \cup {<<NodeName(agents_to_use[i]), "risk_management_agent">> : i \in DOMAIN agents_to_use}
      \cup {<<NodeName(agents_to_use[i]), "portfolio_manager">> : i \in DOMAIN agents_to_use}
      \cup (IF agents_to_use = <<>> THEN {<<"start_node", "risk_management_agent">>} ELSE {})
      \cup {<<"risk_management_agent", "portfolio_manager">>, <<"portfolio_manager", END>>}

\* the add_edge calls with risk management wired to END as well
WorkflowEdgesRiskToEnd(agents_to_use) ==
    {<<"start_node", NodeName(agents_to_use[i])>> : i \in DOMAIN agents_to_use}
      \cup {<<NodeName(agents_to_use[i]), "risk_management_agent">> : i \in DOMAIN agents_to_use}
      \cup (IF agents_to_use = <<>> THEN {<<"start_node", "risk_management_agent">>} ELSE {})
      \cup {<<"risk_management_agent", "portfolio_manager">>, <<"risk_management_agent", END>>,
            <<"portfolio_manager", END>>}

\* the add_edge calls
WorkflowEdges(agents_to_use) ==
    {<<"start_node", NodeName(agents_to_use[i])>> : i \in DOMAIN agents_to_use}
      \cup {<<NodeName(agents_to_use[i]), "risk_management_agent">> : i \in DOMAIN agents_to_use}
      \cup (IF agents_to_use = <<>> THEN {<<"start_node", "risk_management_agent">>} ELSE {})
      \cup {<<"risk_management_agent", "portfolio_manager">>, <<"portfolio_manager", END>>}

\* build_agent_workflow(selected_agents)
BuildAgentWorkflow(selected_agents) ==
    LET agents_to_use == AgentsToUse(selected_agents)
    IN [nodes |-> WorkflowNodes(agents_to_use),
        edges |-> WorkflowEdges(agents_to_use),
        entry_point |-> "start_node"]

NoGraph == [nodes |-> {}, edges |-> {}, entry_point |-> "none"]

(***************************************************************************)
(* One run: run_hedge_fund (src/src/main.py) builds and compiles the graph *)
(* and execute_graph_invocation (src/src/graph/runner.py) invokes it.  The *)
(* compiled graph runs in supersteps: the nodes of a superstep run         *)
(* concurrently, and the nodes of the next one are those with an edge from *)
(* a node of this one.                                                     *)
(***************************************************************************)
AllNodeNames ==
    {"start_node", "risk_management_agent", "portfolio_manager"}
      \cup {NodeName(k) : k \in Registered}

AnalystNodeNames == {NodeName(k) : k \in Registered}

\* workflow = build_agent_workflow(selected_analysts)
RunBuild ==
    /\ run_pc = "idle"
    /\ \E sel \in Selections :
         /\ selection' = sel
         /\ graph' = BuildAgentWorkflow(sel)
    /\ run_pc' = "built"
    /\ UNCHANGED <<active, node_status, exec_count, analyst_signals, messages,
                   run_result, run_no, prev_cache, node_fetches,
                   cacheVars, threadVars, llmVars, fundVars>>

\* what compile() validates: the entry point and both ends of every edge are nodes
GraphValid(g) ==
    /\ g.entry_point \in g.nodes
    /\ \A e \in g.edges : e[1] \in g.nodes /\ e[2] \in g.nodes \cup {END}

\* agent = workflow.compile()
RunCompile ==
    /\ run_pc = "built"
    /\ run_pc' = IF GraphValid(graph) THEN "compiled" ELSE "failed"
    /\ UNCHANGED <<selection, graph, active, node_status, exec_count, analyst_signals,
                   messages, run_result, run_no, prev_cache, node_fetches,
                   cacheVars, threadVars, llmVars, fundVars>>

\* an input payload built around the analyst_signals mapping of the last run
InputPayloadShared(old_signals) ==
    [messages |-> <<[name |-> "human", content |-> "initial_message"]>>,
     analyst_signals |-> old_signals]

\* input_payload: one HumanMessage and a new, empty analyst_signals dict
InputPayload(old_signals) ==
    [messages |-> <<[name |-> "human", content |-> "initial_message"]>>,
     analyst_signals |-> <<>>]

\* the graph invoked as build_agent_workflow returned it, without compile()
RunInvokeUncompiled ==
    /\ run_pc = "built"
    /\ run_pc' = "running"
    /\ messages' = InputPayload(analyst_signals).messages
    /\ analyst_signals' = InputPayload(analyst_signals).analyst_signals
    /\ active' = {graph.entry_point}
    /\ node_status' = [n \in AllNodeNames |-> "pending"]
    /\ exec_count' = [n \in AllNodeNames |-> 0]
    /\ UNCHANGED <<selection, graph, run_result, run_no, prev_cache, node_fetches,
                   cacheVars, threadVars, llmVars, fundVars>>

\* execute_graph_invocation: the input payload, and the entry point is scheduled
RunInvoke ==
    /\ run_pc = "compiled"
    /\ run_pc' = "running"
    /\ messages' = InputPayload(analyst_signals).messages
    /\ analyst_signals' = InputPayload(analyst_signals).analyst_signals
    /\ active' = {graph.entry_point}
    /\ node_status' = [n \in AllNodeNames |-> "pending"]
    /\ exec_count' = [n \in AllNodeNames |-> 0]
    /\ UNCHANGED <<selection, graph, run_result, run_no, prev_cache, node_fetches,
                   cacheVars, threadVars, llmVars, fundVars>>

\* a node of the superstep starts executing
NodeStart(n) ==
    /\ run_pc = "running"
    /\ n \in active
    /\ node_status[n] = "pending"
    /\ node_status' = [node_status EXCEPT ![n] = "running"]
    /\ exec_count' = [exec_count EXCEPT ![n] = @ + 1]
    /\ node_fetches' = [node_fetches EXCEPT ![n] = 0]
    /\ UNCHANGED <<run_pc, selection, graph, active, analyst_signals, messages,
                   run_result, run_no, prev_cache,
                   cacheVars, threadVars, llmVars, fundVars>>

\* stands for a message content that is no str: a list of content blocks
NonTextContent == "content_blocks"

\* the content of the message a node emits: the analysis and risk nodes dump
\* their own entry as a JSON object; the portfolio manager emits what its
\* model answered
Contents(n) ==
    IF n = "portfolio_manager"
    THEN {"{\"decisions\": {\"AAA\": \"buy\"}}", "{\"AAA\": \"buy\"}", "[]", "not json",
          NonTextContent}
    ELSE {"{\"AAA\": {\"signal\": \"neutral\"}}"}

\* what a node's fetches store in the process-wide cache (get_cache()): the
\* fundamentals agent fetches financial metrics and prices of the ticker
Fetches(n) ==
    IF n = "fundamentals_agent"
    THEN <<[kind |-> "financial_metrics", ticker |-> "AAA",
            data |-> <<Rec("financial_metrics", "d1", "a")>>],
           [kind |-> "prices", ticker |-> "AAA", data |-> <<Rec("prices", "d1", "a")>>]>>
    ELSE <<>>

\* a running node makes its next fetch: the answer is stored in the cache
\* while the node is still running, before its entry and its message exist
NodeFetch(n) ==
    /\ run_pc = "running"
    /\ n \in active
    /\ node_status[n] = "running"
    /\ node_fetches[n] < Len(Fetches(n))
    /\ LET fetch == Fetches(n)[node_fetches[n] + 1] IN
         /\ cache' = CacheSet(cache, fetch.kind, fetch.ticker, fetch.data)
         /\ was_set' = was_set \cup {<<fetch.kind, fetch.ticker>>}
    /\ node_fetches' = [node_fetches EXCEPT ![n] = @ + 1]
    /\ UNCHANGED <<run_pc, selection, graph, active, node_status, exec_count,
                   analyst_signals, messages, run_result, run_no, prev_cache,
                   last, nsets, threadVars, llmVars, fundVars>>

\* a node returns, all its fetches made.  start_node returns the state as it
\* is; an agent stores its entry under its own name in analyst_signals and
\* emits one message.
NodeFinish(n) ==
    /\ run_pc = "running"
    /\ n \in active
    /\ node_status[n] = "running"
    /\ node_fetches[n] = Len(Fetches(n))
    /\ node_status' = [node_status EXCEPT ![n] = "done"]
    /\ IF n = "start_node"
       THEN UNCHANGED <<analyst_signals, messages>>
       ELSE /\ analyst_signals' = DictPut(analyst_signals, n, "analysis")
            /\ \E content \in Contents(n) :
                 messages' = Append(messages, [name |-> n, content |-> content])
    /\ UNCHANGED <<run_pc, selection, graph, active, exec_count,
                   run_result, run_no, prev_cache, node_fetches,
                   cacheVars, threadVars, llmVars, fundVars>>

\* a node raises, after any number of its fetches, and the engine carries on
\* with the run
NodeRaiseSwallowed(n) ==
    /\ run_pc = "running"
    /\ n \in active
    /\ node_status[n] = "running"
    /\ node_status' = [node_status EXCEPT ![n] = "raised"]
    /\ active' = active \ {n}
    /\ UNCHANGED <<run_pc, selection, graph, exec_count, analyst_signals,
                   messages, run_result, run_no, prev_cache, node_fetches,
                   cacheVars, threadVars, llmVars, fundVars>>

\* a node raises, after any number of its fetches: what they stored stays in
\* the cache, and the exception leaves invoke and run_hedge_fund
NodeRaise(n) ==
    /\ run_pc = "running"
    /\ n \in active
    /\ node_status[n] = "running"
    /\ node_status' = [node_status EXCEPT ![n] = "raised"]
    /\ run_pc' = "failed"
    /\ UNCHANGED <<selection, graph, active, exec_count, analyst_signals,
                   messages, run_result, run_no, prev_cache, node_fetches,
                   cacheVars, threadVars, llmVars, fundVars>>

\* the nodes with an edge from a node of this superstep
Triggered == {n \in graph.nodes : \E m \in active : <<m, n>> \in graph.edges}

\* every node of the superstep has returned: the next superstep, or the end
StepAdvance ==
    /\ run_pc = "running"
    /\ \A n \in active : node_status[n] = "done"
    /\ IF Triggered = {}
       THEN /\ run_pc' = "completed"
            /\ UNCHANGED <<active, node_status>>
       ELSE /\ active' = Triggered
            /\ node_status' = [n \in AllNodeNames |-> "pending"]
            /\ UNCHANGED run_pc
    /\ UNCHANGED <<selection, graph, exec_count, analyst_signals, messages,
                   run_result, run_no, prev_cache, node_fetches,
                   cacheVars, threadVars, llmVars, fundVars>>

\* parse_json_response: json.loads of the text, None when it is not JSON
ParseJsonResponse(response_content) ==
    CASE response_content = NonTextContent -> [type |-> "NoneType"]
      [] response_content = "{\"decisions\": {\"AAA\": \"buy\"}}" ->
            [type |-> "dict", items |-> [decisions |-> "{\"AAA\": \"buy\"}"]]
      [] response_content = "{\"AAA\": \"buy\"}" ->
            [type |-> "dict", items |-> [AAA |-> "buy"]]
      [] response_content = "{\"AAA\": {\"signal\": \"neutral\"}}" ->
            [type |-> "dict", items |-> [AAA |-> "{\"signal\": \"neutral\"}"]]
      [] response_content = "[]" -> [type |-> "list"]
      [] OTHER -> [type |-> "NoneType"]

\* parsed_response.get("decisions") without the isinstance test: a list and
\* None have no get
DecisionsOfNoDictTest(parsed_response) ==
    IF parsed_response.type # "dict" THEN "AttributeError"
    ELSE IF "decisions" \in DOMAIN parsed_response.items
    THEN parsed_response.items.decisions
    ELSE "None"

\* parsed_response.get("decisions") if isinstance(parsed_response, dict) else None
DecisionsOf(parsed_response) ==
    IF parsed_response.type = "dict" /\ "decisions" \in DOMAIN parsed_response.items
    THEN parsed_response.items.decisions
    ELSE "None"

NoResult == [returned |-> FALSE]

\* invoke returned the final state: run_hedge_fund parses the last message
\* and returns the result mapping
RunReturn ==
    /\ run_pc = "completed"
    /\ run_pc' = "returned"
    /\ run_result' =
          [returned |-> TRUE,
           decisions |-> DecisionsOf(ParseJsonResponse(messages[Len(messages)].content)),
           analyst_signals |-> analyst_signals]
    /\ UNCHANGED <<selection, graph, active, node_status, exec_count, analyst_signals,
                   messages, run_no, prev_cache, node_fetches,
                   cacheVars, threadVars, llmVars, fundVars>>

\* the caller calls run_hedge_fund again after the last call has ended: the
\* module-level cache is the same object, the locals of the last call are gone
RunNext ==
    /\ run_pc \in {"returned", "failed"}
    /\ run_no < MaxRuns - 1
    /\ run_no' = run_no + 1
    /\ prev_cache' = cache
    /\ run_pc' = "idle"
    /\ run_result' = NoResult
    /\ UNCHANGED <<selection, graph, active, node_status, exec_count, analyst_signals,
                   messages, node_fetches, cacheVars, threadVars, llmVars, fundVars>>

(***************************************************************************)
(* Python floats (IEEE-754 binary64), as fundamentals.py computes with     *)
(* them.  A natural number of any size is the sequence of its digits in    *)
(* base 2^LimbBits, lowest first, without leading zeros; a float is a sign,*)
(* a mantissa of MantissaBits bits and an exponent: m * 2^e.  Every        *)
(* operation rounds its exact result to the nearest float, ties to the     *)
(* even mantissa.  Subnormal numbers, infinities and NaN are out of the    *)
(* range of the amounts the agent handles.                                 *)
(***************************************************************************)
LimbBits == 15

LimbBase == 2^LimbBits

\* the mantissa of a binary64 float, its leading bit included
MantissaBits == 53

\* a number without its leading zero digits
RECURSIVE NNorm(_)
NNorm(a) ==
    IF a = <<>> THEN a
    ELSE IF a[Len(a)] = 0 THEN NNorm(SubSeq(a, 1, Len(a) - 1))
    ELSE a

\* an int n >= 0 as a number
RECURSIVE NFromInt(_)
NFromInt(n) == IF n = 0 THEN <<>> ELSE <<n % LimbBase>> \o NFromInt(n \div LimbBase)

\* digit i of a number, digits past its length being 0
NDigit(a, i) == IF i <= Len(a) THEN a[i] ELSE 0

\* a + b + carry, from digit i on
RECURSIVE NAddFrom(_, _, _, _)
NAddFrom(a, b, i, carry) ==
    IF i > Len(a) /\ i > Len(b)
    THEN IF carry = 0 THEN <<>> ELSE <<carry>>
    ELSE LET t == NDigit(a, i) + NDigit(b, i) + carry
         IN <<t % LimbBase>> \o NAddFrom(a, b, i + 1, t \div LimbBase)

NAdd(a, b) == NAddFrom(a, b, 1, 0)

\* a - b - borrow, from digit i on, for a >= b
RECURSIVE NSubFrom(_, _, _, _)
NSubFrom(a, b, i, borrow) ==
    IF i > Len(a) THEN <<>>
    ELSE LET t == a[i] - NDigit(b, i) - borrow
         IN <<t % LimbBase>> \o NSubFrom(a, b, i + 1, IF t < 0 THEN 1 ELSE 0)

NSub(a, b) == NNorm(NSubFrom(a, b, 1, 0))

\* -1, 0 or 1 as a < b, a = b or a > b, comparing from digit i downwards
RECURSIVE NCmpFrom(_, _, _)
NCmpFrom(a, b, i) ==
    IF i = 0 THEN 0
    ELSE IF a[i] < b[i] THEN -1
    ELSE IF a[i] > b[i] THEN 1
    ELSE NCmpFrom(a, b, i - 1)

NCmp(a, b) ==
    IF Len(a) < Len(b) THEN -1
    ELSE IF Len(a) > Len(b) THEN 1
    ELSE NCmpFrom(a, b, Len(a))

\* a * d + carry for one digit d, from digit i on
RECURSIVE NMulDigitFrom(_, _, _, _)
NMulDigitFrom(a, d, i, carry) ==
    IF i > Len(a)
    THEN IF carry = 0 THEN <<>> ELSE <<carry>>
    ELSE LET t == a[i] * d + carry
         IN <<t % LimbBase>> \o NMulDigitFrom(a, d, i + 1, t \div LimbBase)

NMulDigit(a, d) == IF d = 0 THEN <<>> ELSE NMulDigitFrom(a, d, 1, 0)

\* a with n zero digits below it
NShiftDigits(a, n) == IF a = <<>> THEN a ELSE [i \in 1..n |-> 0] \o a

\* a * b, the digits of b from digit i on
RECURSIVE NMulFrom(_, _, _)
NMulFrom(a, b, i) ==
    IF i > Len(b) THEN <<>>
    ELSE NAdd(NShiftDigits(NMulDigit(a, b[i]), i - 1), NMulFrom(a, b, i + 1))

NMul(a, b) == NMulFrom(a, b, 1)

\* a * 2^k
NShl(a, k) == NShiftDigits(NMulDigit(a, 2^(k % LimbBits)), k \div LimbBits)

\* a \div d for one digit d, from digit i downwards with the remainder so far
RECURSIVE NDivDigitFrom(_, _, _, _)
NDivDigitFrom(a, d, i, rem) ==
    IF i = 0 THEN <<>>
    ELSE LET t == rem * LimbBase + a[i]
         IN NDivDigitFrom(a, d, i - 1, t % d) \o <<t \div d>>

\* a \div 2^k
NShr(a, k) ==
    LET n == k \div LimbBits
        high == IF n >= Len(a) THEN <<>> ELSE SubSeq(a, n + 1, Len(a))
    IN NNorm(NDivDigitFrom(high, 2^(k % LimbBits), Len(high), 0))

\* the number of bits of an int n >= 0
RECURSIVE IntBitLen(_)
IntBitLen(n) == IF n = 0 THEN 0 ELSE 1 + IntBitLen(n \div 2)

\* the number of bits of a number
NBitLen(a) == IF a = <<>> THEN 0 ELSE LimbBits * (Len(a) - 1) + IntBitLen(a[Len(a)])

\* bit i of a number, bit 0 the lowest
NBit(a, i) == (NDigit(a, i \div LimbBits + 1) \div 2^(i % LimbBits)) % 2

NIsOdd(a) == a # <<>> /\ a[1] % 2 = 1

\* long division in base 2: the quotient and the remainder of the bits of n
\* from bit i - 1 downwards, with the quotient q and the remainder r so far
RECURSIVE NDivModFrom(_, _, _, _, _)
NDivModFrom(n, d, i, q, r) ==
    LET r2 == NAdd(NShl(r, 1), NFromInt(NBit(n, i - 1)))
        q2 == NShl(q, 1)
    IN IF i = 0 THEN [quot |-> q, rem |-> r]
       ELSE IF Len(q2) >= 0 /\ NCmp(r2, d) >= 0
       THEN NDivModFrom(n, d, i - 1, NAdd(q2, <<1>>), NSub(r2, d))
       ELSE NDivModFrom(n, d, i - 1, q2, r2)

\* n \div d and n % d, for d > 0.  A divisor of one digit divides digit by
\* digit; otherwise the leading bits of n that are fewer than the bits of d
\* are below d and start as the remainder of the long division.
NDivMod(n, d) ==
    LET i == IF NBitLen(n) >= NBitLen(d) THEN NBitLen(n) - NBitLen(d) + 1 ELSE 0
        q == NNorm(NDivDigitFrom(n, d[1], Len(n), 0))
    IN IF Len(d) = 1 THEN [quot |-> q, rem |-> NSub(n, NMulDigit(q, d[1]))]
       ELSE NDivModFrom(n, d, i, <<>>, NShr(n, i))

\* 0.0
DZero == [neg |-> FALSE, m |-> <<>>, e |-> 0]

\* the float nearest to n * 2^e, ties to even
DRound(neg, n, e) ==
    LET len == NBitLen(n)
        k == len - MantissaBits
    IN IF n = <<>> THEN DZero
       ELSE IF k <= 0 THEN [neg |-> neg, m |-> NShl(n, -k), e |-> e + k]
       ELSE LET q == NShr(n, k)
                c == NCmp(NSub(n, NShl(q, k)), NShl(<<1>>, k - 1))
                m == IF c > 0 \/ (c = 0 /\ NIsOdd(q)) THEN NAdd(q, <<1>>) ELSE q
            IN IF NBitLen(m) > MantissaBits
               THEN [neg |-> neg, m |-> NShr(m, 1), e |-> e + k + 1]
               ELSE [neg |-> neg, m |-> m, e |-> e + k]

\* the float nearest to (n / d) * 2^e: the quotient is taken with three bits
\* more than the mantissa holds, and one more that says whether anything is
\* left of the division
DRoundRatio(neg, n, d, e) ==
    LET want == MantissaBits + 3 + NBitLen(d) - NBitLen(n)
        s == IF want > 0 THEN want ELSE 0
        qr == NDivMod(NShl(n, s), d)
    IN IF n = <<>> THEN DZero
       ELSE DRound(neg, NAdd(NShl(qr.quot, 1), IF qr.rem = <<>> THEN <<>> ELSE <<1>>),
                   e - s - 1)

Abs(n) == IF n < 0 THEN -n ELSE n

\* float(x / 100) of a decimal x held in hundredths: what the provider's JSON
\* number parses to
DFromHundredths(x) == DRoundRatio(x < 0, NFromInt(Abs(x)), NFromInt(100), 0)

\* a * b
DMul(a, b) == DRound(a.neg # b.neg, NMul(a.m, b.m), a.e + b.e)

\* a / b, for b # 0
DDiv(a, b) == DRoundRatio(a.neg # b.neg, a.m, b.m, a.e - b.e)

\* a + b
DAdd(a, b) ==
    LET e == IF a.e < b.e THEN a.e ELSE b.e
        x == NShl(a.m, a.e - e)
        y == NShl(b.m, b.e - e)
    IN IF a.m = <<>> THEN b
       ELSE IF b.m = <<>> THEN a
       ELSE IF a.neg = b.neg THEN DRound(a.neg, NAdd(x, y), e)
       ELSE IF NCmp(x, y) >= 0 THEN DRound(a.neg, NSub(x, y), e)
       ELSE DRound(b.neg, NSub(y, x), e)

\* -1, 0 or 1 as |a| < |b|, |a| = |b| or |a| > |b|
DCmpAbs(a, b) ==
    IF a.m = <<>> \/ b.m = <<>>
    THEN IF a.m = b.m THEN 0 ELSE IF a.m = <<>> THEN -1 ELSE 1
    ELSE IF a.e < b.e THEN -1
    ELSE IF a.e > b.e THEN 1
    ELSE NCmp(a.m, b.m)

\* a < b
DLess(a, b) ==
    LET an == a.neg /\ a.m # <<>>
        bn == b.neg /\ b.m # <<>>
    IN IF an # bn THEN an
       ELSE IF an THEN DCmpAbs(a, b) > 0
       ELSE DCmpAbs(a, b) < 0

\* a <= b
DLessEq(a, b) == ~DLess(b, a)

(***************************************************************************)
(* fundamentals_agent (src/src/agents/fundamentals.py).  The decimals the  *)
(* provider hands over are held in hundredths (0.15 is 15, 1.5 is 150, 25  *)
(* is 2500) and a date is held by its year.  A number compared with a      *)
(* literal of the source is compared in hundredths: two decimals parse to  *)
(* floats in the order of the decimals.  Where the source multiplies, adds *)
(* or divides, the model computes the float the source computes.           *)
(***************************************************************************)
\* Optional[float]: a number, or None
Float(x) == [isNone |-> FALSE, value |-> x]

\* bool(x) of an Optional[float]: None and 0.0 are false
Truthy(x) == ~x.isNone /\ x.value # 0

\* metric is not None and metric > threshold
Above(metric, threshold) == ~metric.isNone /\ metric.value > threshold

\* a bool summed as an int
BoolToInt(b) == IF b THEN 1 ELSE 0

MetricFields ==
    {"return_on_equity", "net_margin", "operating_margin",
     "revenue_growth", "earnings_growth", "book_value_growth",
     "current_ratio", "debt_to_equity", "free_cash_flow_per_share", "earnings_per_share",
     "price_to_earnings_ratio", "price_to_book_ratio", "price_to_sales_ratio"}

\* FinancialMetrics rows of the provider: every field None, a strong company,
\* a weak one, one strong in one field of each group only, and one with every
\* field on its threshold and free cash flow per share 0.8 times the EPS
NullMetrics == [f \in MetricFields |-> None]

StrongMetrics ==
    [return_on_equity |-> Float(20), net_margin |-> Float(25), operating_margin |-> Float(20),
     revenue_growth |-> Float(15), earnings_growth |-> Float(15), book_value_growth |-> Float(15),
     current_ratio |-> Float(200), debt_to_equity |-> Float(30),
     free_cash_flow_per_share |-> Float(100), earnings_per_share |-> Float(100),
     price_to_earnings_ratio |-> Float(1500), price_to_book_ratio |-> Float(200),
     price_to_sales_ratio |-> Float(300)]

WeakMetrics ==
    [return_on_equity |-> Float(5), net_margin |-> Float(5), operating_margin |-> Float(5),
     revenue_growth |-> Float(0), earnings_growth |-> Float(-10), book_value_growth |-> Float(0),
     current_ratio |-> Float(100), debt_to_equity |-> Float(150),
     free_cash_flow_per_share |-> Float(10), earnings_per_share |-> Float(100),
     price_to_earnings_ratio |-> Float(4000), price_to_book_ratio |-> Float(500),
     price_to_sales_ratio |-> Float(800)]

MixedMetrics ==
    [return_on_equity |-> Float(20), net_margin |-> Float(25), operating_margin |-> None,
     revenue_growth |-> Float(5), earnings_growth |-> None, book_value_growth |-> Float(0),
     current_ratio |-> Float(200), debt_to_equity |-> Float(0),
     free_cash_flow_per_share |-> None, earnings_per_share |-> Float(100),
     price_to_earnings_ratio |-> Float(4000), price_to_book_ratio |-> Float(200),
     price_to_sales_ratio |-> None]

EdgeMetrics ==
    [return_on_equity |-> Float(15), net_margin |-> Float(20), operating_margin |-> Float(15),
     revenue_growth |-> Float(10), earnings_growth |-> Float(10), book_value_growth |-> Float(10),
     current_ratio |-> Float(150), debt_to_equity |-> Float(50),
     free_cash_flow_per_share |-> Float(56), earnings_per_share |-> Float(70),
     price_to_earnings_ratio |-> Float(2500), price_to_book_ratio |-> Float(300),
     price_to_sales_ratio |-> Float(500)]

\* what get_financial_metrics returns: None, [], or a list whose first row counts
MetricsResults ==
    {None, Some(<<>>), Some(<<NullMetrics>>), Some(<<StrongMetrics, WeakMetrics>>),
     Some(<<WeakMetrics>>), Some(<<MixedMetrics>>), Some(<<EdgeMetrics>>)}

\* a Dividend: dividend_type, cash_amount, the year of ex_dividend_date
Div(type, amount, year) == [dividend_type |-> type, cash_amount |-> amount, year |-> year]

\* what get_dividend_history returns: nothing, three past years of cash
\* dividends (0.1 + 0.2 in the last full year), cash dividends of the current
\* year only, a stock dividend only
DividendResults ==
    {<<>>,
     <<Div("CD", 10, 2023), Div("CD", 20, 2023), Div("CD", 50, 2022), Div("CD", 50, 2021)>>,
     <<Div("CD", 10, 2024)>>,
     <<Div("SD", 100, 2023)>>}

\* what get_prices returns for end_date: nothing, or one price with its close
\* (0.3 is 3% of 10.0)
PriceResults == {<<>>, <<[close |-> 1000]>>, <<[close |-> 5000]>>}

\* what search_line_items returns: nothing, or one item with earnings_per_share
\* (0.3 is 75% of 0.4 and 0.1 is 25% of it)
EpsResults == {<<>>, <<[earnings_per_share |-> Float(40)]>>}

\* the provider's answers for one ticker
ProviderData ==
    [financial_metrics : MetricsResults, dividend_history : DividendResults,
     prices : PriceResults, line_items : EpsResults]

\* datetime.strptime(end_date, "%Y-%m-%d").year of the runs explored
EndYears == {2024}

\* `if not financial_metrics` taken only for None
SkipsOnlyNone(financial_metrics) == financial_metrics.isNone

\* if not financial_metrics: ... continue
Skips(financial_metrics) == financial_metrics.isNone \/ financial_metrics.list = <<>>

\* "bullish" if score >= 2 else "bearish" if score == 0 else "neutral"
ScoreSignal(score) ==
    IF score >= 2 THEN "bullish" ELSE IF score = 0 THEN "bearish" ELSE "neutral"

ProfitabilityScore(metrics) ==
    BoolToInt(Above(metrics.return_on_equity, 15)) + BoolToInt(Above(metrics.net_margin, 20))
      + BoolToInt(Above(metrics.operating_margin, 15))

GrowthScore(metrics) ==
    BoolToInt(Above(metrics.revenue_growth, 10)) + BoolToInt(Above(metrics.earnings_growth, 10))
      + BoolToInt(Above(metrics.book_value_growth, 10))

\* free_cash_flow_per_share > earnings_per_share * 0.8
FcfAboveEps(free_cash_flow_per_share, earnings_per_share) ==
    DLess(DMul(DFromHundredths(earnings_per_share), DFromHundredths(80)),
          DFromHundredths(free_cash_flow_per_share))

HealthScore(metrics) ==
    BoolToInt(Truthy(metrics.current_ratio) /\ metrics.current_ratio.value > 150)
      + BoolToInt(Truthy(metrics.debt_to_equity) /\ metrics.debt_to_equity.value < 50)
      + BoolToInt(/\ Truthy(metrics.free_cash_flow_per_share)
            /\ Truthy(metrics.earnings_per_share)
            /\ FcfAboveEps(metrics.free_cash_flow_per_share.value,
                           metrics.earnings_per_share.value))

PriceRatioScore(metrics) ==
    BoolToInt(Above(metrics.price_to_earnings_ratio, 2500))
      + BoolToInt(Above(metrics.price_to_book_ratio, 300))
      + BoolToInt(Above(metrics.price_to_sales_ratio, 500))

\* "bearish" if price_ratio_score >= 2 else "bullish" if price_ratio_score == 0 else "neutral"
PriceRatioSignal(score) ==
    IF score >= 2 THEN "bearish" ELSE IF score = 0 THEN "bullish" ELSE "neutral"

\* div.dividend_type == 'CD' and div.cash_amount > 0.0 and div.ex_dividend_date
IsCashDividend(div) == div.dividend_type = "CD" /\ div.cash_amount > 0

YearsWithDividends(dividend_history) ==
    {dividend_history[i].year :
        i \in {j \in DOMAIN dividend_history : IsCashDividend(dividend_history[j])}}

\* dividends_by_year[year] after the first n dividends of the history: 0.0,
\* and each cash dividend of the year added in the order of the history
RECURSIVE DividendsByYearUpTo(_, _, _)
DividendsByYearUpTo(dividend_history, year, n) ==
    IF n = 0 THEN DZero
    ELSE LET div == dividend_history[n]
             before == DividendsByYearUpTo(dividend_history, year, n - 1)
         IN IF IsCashDividend(div) /\ div.year = year
            THEN DAdd(before, DFromHundredths(div.cash_amount))
            ELSE before

\* dividends_by_year[year]
DividendsByYear(dividend_history, year) ==
    DividendsByYearUpTo(dividend_history, year, Len(dividend_history))

MaxOf(S) == CHOOSE x \in S : \A y \in S : y <= x

\* the total of the latest year before the current one, else of the latest year
LatestFullYearDividendTotal(dividend_history, current_year) ==
    LET years == YearsWithDividends(dividend_history)
        past == {y \in years : y < current_year}
    IN IF years = {} THEN DZero
       ELSE IF past # {} THEN DividendsByYear(dividend_history, MaxOf(past))
       ELSE DividendsByYear(dividend_history, MaxOf(years))

\* current_price_data[0].close if current_price_data else None
CurrentPrice(current_price_data) ==
    IF current_price_data # <<>> THEN Float(current_price_data[1].close) ELSE None

\* annual_eps_items[0].earnings_per_share if annual_eps_items ... else None
LatestAnnualEps(annual_eps_items) ==
    IF annual_eps_items # <<>> THEN annual_eps_items[1].earnings_per_share ELSE None

\* dividend_yield = total / current_price; dividend_yield > 0.03
YieldAbove(total, current_price) ==
    DLess(DFromHundredths(3), DDiv(total, DFromHundredths(current_price)))

\* payout_ratio = total / latest_annual_eps; 0.25 <= payout_ratio <= 0.75
PayoutInRange(total, latest_annual_eps) ==
    LET payout_ratio == DDiv(total, DFromHundredths(latest_annual_eps))
    IN DLessEq(DFromHundredths(25), payout_ratio) /\ DLessEq(payout_ratio, DFromHundredths(75))

\* yield above 3%, payout between 25% and 75%, dividends in three years or more,
\* from the values the code holds in its variables at line 173
DividendScoreOf(total, current_price, latest_annual_eps, dividend_history) ==
    BoolToInt(/\ Truthy(current_price)
              /\ DLess(DZero, total)
              /\ YieldAbove(total, current_price.value))
      + BoolToInt(/\ Truthy(latest_annual_eps)
                  /\ latest_annual_eps.value > 0
                  /\ DLess(DZero, total)
                  /\ PayoutInRange(total, latest_annual_eps.value))
      + BoolToInt(Cardinality(YearsWithDividends(dividend_history)) >= 3)

\* dividend_score of one ticker's data
DividendScore(d, current_year) ==
    DividendScoreOf(LatestFullYearDividendTotal(d.dividend_history, current_year),
                    CurrentPrice(d.prices), LatestAnnualEps(d.line_items),
                    d.dividend_history)

\* "bullish" if dividend_score >= 2 else "bearish" if dividend_score == 0 and
\* latest_full_year_dividend_total == 0 else "neutral"
DividendSignalOf(dividend_score, total) ==
    IF dividend_score >= 2 THEN "bullish"
    ELSE IF dividend_score = 0 /\ total = DZero THEN "bearish"
    ELSE "neutral"

\* the dividend signal of one ticker's data whose latest full year total is total
DividendSignalWith(total, d) ==
    DividendSignalOf(DividendScoreOf(total, CurrentPrice(d.prices),
                                     LatestAnnualEps(d.line_items), d.dividend_history),
                     total)

DividendSignal(d, current_year) ==
    DividendSignalWith(LatestFullYearDividendTotal(d.dividend_history, current_year), d)

\* the signals list of one ticker
Signals(d, current_year) ==
    LET metrics == d.financial_metrics.list[1]
    IN <<ScoreSignal(ProfitabilityScore(metrics)), ScoreSignal(GrowthScore(metrics)),
         ScoreSignal(HealthScore(metrics)), PriceRatioSignal(PriceRatioScore(metrics)),
         DividendSignal(d, current_year)>>

\* signals.count(x)
Count(signals, x) == Cardinality({i \in DOMAIN signals : signals[i] = x})

\* the overall signal with a tie counted as bullish
OverallSignalTieBullish(signals) ==
    LET bullish_signals == Count(signals, "bullish")
        bearish_signals == Count(signals, "bearish")
    IN IF bullish_signals >= bearish_signals THEN "bullish" ELSE "bearish"

OverallSignal(signals) ==
    LET bullish_signals == Count(signals, "bullish")
        bearish_signals == Count(signals, "bearish")
    IN IF bullish_signals > bearish_signals THEN "bullish"
       ELSE IF bearish_signals > bullish_signals THEN "bearish"
       ELSE "neutral"

\* round(max(bullish_signals, bearish_signals) / total_signals, 2) * 100; with
\* the five signals of the list the quotient has one decimal
Confidence(signals) ==
    LET bullish_signals == Count(signals, "bullish")
        bearish_signals == Count(signals, "bearish")
        most == IF bullish_signals >= bearish_signals THEN bullish_signals ELSE bearish_signals
    IN (most * 100) \div Len(signals)

\* fundamental_analysis[ticker] = {signal, confidence, reasoning}
AnalysisOf(signals) ==
    [signal |-> OverallSignal(signals),
     confidence |-> Confidence(signals),
     reasoning |-> [profitability_signal |-> signals[1], growth_signal |-> signals[2],
                    financial_health_signal |-> signals[3],
                    price_ratios_signal |-> signals[4], dividend_signal |-> signals[5]]]

\* fundamental_analysis[ticker]
Analysis(d, current_year) == AnalysisOf(Signals(d, current_year))

\* an AgentState: data (tickers, date range, analyst_signals) and metadata
AgentState(tickers, end_year, signals, show_reasoning) ==
    [data |-> [tickers |-> tickers, start_year |-> end_year - 1, end_year |-> end_year,
               analyst_signals |-> signals],
     metadata |-> [show_reasoning |-> show_reasoning, model_name |-> "gpt-4o"]]

NoState == AgentState(<<>>, 0, <<>>, FALSE)

\* analyst_signals and show_reasoning of the state the agent is called with:
\* nothing written yet, another agent's entry, an entry of its own from before
PriorStates ==
    {[analyst_signals |-> <<>>, show_reasoning |-> FALSE],
     [analyst_signals |-> [technicals_agent |-> "analysis"], show_reasoning |-> TRUE],
     [analyst_signals |-> [technicals_agent |-> "analysis", fundamentals_agent |-> "stale"],
      show_reasoning |-> FALSE]}

NoFundInput == [tickers |-> <<>>, end_year |-> 0, state |-> NoState, provider |-> <<>>]

\* the agent's entry stored as the whole analyst_signals mapping
StoreSignalsAlone(state, name, entry) ==
    [state EXCEPT !.data.analyst_signals = DictPut(<<>>, name, entry)]

\* state["data"]["analyst_signals"][name] = entry
StoreSignals(state, name, entry) ==
    [state EXCEPT !.data.analyst_signals = DictPut(@, name, entry)]

\* the ticker argument of progress.update_status: a ticker, or None
Ticker(t) == [isNone |-> FALSE, name |-> t]

\* progress.update_status("fundamentals_agent", ticker, status), one call
\* after the other
Statuses(log, ticker, statuses) ==
    log \o [i \in DOMAIN statuses |-> [ticker |-> ticker, status |-> statuses[i]]]

\* the statuses of lines 56 to 225, from the profitability analysis on
AnalysisStatuses ==
    <<"Analyzing profitability", "Analyzing growth", "Analyzing financial health",
      "Analyzing valuation ratios", "Analyzing dividends", "Calculating final signal", "Done">>

\* the fetches whose answers are kept in the cache
CachedFetches == {"financial_metrics", "prices"}

\* the answers a fetch can give
FetchResults(fetch) ==
    CASE fetch = "financial_metrics" -> MetricsResults
      [] fetch = "dividend_history" -> DividendResults
      [] fetch = "prices" -> PriceResults
      [] fetch = "line_items" -> EpsResults

\* the answer holds no record: None or an empty list
NothingFetched(fetch, answer) ==
    IF fetch = "financial_metrics" THEN answer.isNone \/ answer.list = <<>>
    ELSE answer = <<>>

\* what the provider has answered for the ticker of this iteration
Fetched == DictGet(fund_in.provider, fund_in.tickers[fund_i + 1])

\* a fetch of the iteration returns.  The provider answers a ticker it was
\* asked about before as it did then; an answer with records of a kind the
\* cache keeps is stored in the cache.
FetchReturns(fetch, answer) ==
    LET ticker == fund_in.tickers[fund_i + 1]
        before == IF Fetched.isNone THEN <<>> ELSE Fetched.list
        stores == fetch \in CachedFetches /\ ~NothingFetched(fetch, answer)
    IN /\ answer \in FetchResults(fetch)
       /\ fetch \in DOMAIN before => answer = before[fetch]
       /\ fund_in' = [fund_in EXCEPT !.provider = DictPut(@, ticker, DictPut(before, fetch, answer))]
       /\ cache' = IF stores THEN CacheSet(cache, fetch, ticker, <<Rec(fetch, "d1", "a")>>)
                   ELSE cache
       /\ was_set' = IF stores THEN was_set \cup {<<fetch, ticker>>} ELSE was_set
       /\ UNCHANGED <<last, nsets>>

\* fundamental_analysis[ticker] for every answer of the provider with financial
\* metrics, each entry computed once
Analyses ==
    [d \in {x \in ProviderData : ~NothingFetched("financial_metrics", x.financial_metrics)},
     current_year \in EndYears |-> Analysis(d, current_year)] @@ <<>>

\* fundamentals_agent is called with state["data"]
FundStart ==
    /\ fund_pc = "idle"
    /\ \E tickers \in SeqsUpTo(Tickers, MaxTickers), end_year \in EndYears,
          prior \in PriorStates :
         LET state == AgentState(tickers, end_year, prior.analyst_signals,
                                 prior.show_reasoning)
         IN /\ fund_state' = state
            /\ fund_in' = [tickers |-> state.data.tickers, end_year |-> state.data.end_year,
                           state |-> state, provider |-> <<>>]
    /\ fund_pc' = "loop"
    /\ fund_i' = 0
    /\ fundamental_analysis' = <<>>
    /\ fund_progress' = <<>>
    /\ fund_error' = "none"
    /\ UNCHANGED <<cacheVars, threadVars, llmVars, runVars>>

\* `for ticker in tickers` takes the next ticker: the status, and
\* get_financial_metrics is called
FundTicker ==
    /\ fund_pc = "loop"
    /\ fund_i < Len(fund_in.tickers)
    /\ fund_progress' = Statuses(fund_progress, Ticker(fund_in.tickers[fund_i + 1]),
                                 <<"Fetching financial metrics">>)
    /\ fund_pc' = "financial_metrics"
    /\ UNCHANGED <<fund_in, fund_i, fundamental_analysis, fund_error, fund_state,
                   cacheVars, threadVars, llmVars, runVars>>

\* get_financial_metrics returns: a ticker without metrics is reported and
\* skipped; otherwise metrics = financial_metrics[0], the status, and
\* get_dividend_history is called
FundMetrics ==
    /\ fund_pc = "financial_metrics"
    /\ \E financial_metrics \in MetricsResults :
         /\ FetchReturns("financial_metrics", financial_metrics)
         /\ IF Skips(financial_metrics)
            THEN /\ fund_progress' = Statuses(fund_progress, Ticker(fund_in.tickers[fund_i + 1]),
                                              <<"Failed: No financial metrics found">>)
                 /\ fund_i' = fund_i + 1
                 /\ fund_pc' = "loop"
                 /\ UNCHANGED fund_error
            ELSE IF financial_metrics.list = <<>>
            THEN /\ fund_pc' = "failed"
                 /\ fund_error' = "IndexError"
                 /\ UNCHANGED <<fund_i, fund_progress>>
            ELSE /\ fund_progress' = Statuses(fund_progress, Ticker(fund_in.tickers[fund_i + 1]),
                                              <<"Fetching dividend history">>)
                 /\ fund_pc' = "dividend_history"
                 /\ UNCHANGED <<fund_i, fund_error>>
    /\ UNCHANGED <<fundamental_analysis, fund_state, threadVars, llmVars, runVars>>

\* get_dividend_history returns: the status, and get_prices is called
FundDividends ==
    /\ fund_pc = "dividend_history"
    /\ \E dividend_history \in DividendResults :
         FetchReturns("dividend_history", dividend_history)
    /\ fund_progress' = Statuses(fund_progress, Ticker(fund_in.tickers[fund_i + 1]),
                                 <<"Fetching current price for yield">>)
    /\ fund_pc' = "prices"
    /\ UNCHANGED <<fund_i, fundamental_analysis, fund_error, fund_state,
                   threadVars, llmVars, runVars>>

\* get_prices returns: current_price, the status, and search_line_items is
\* called
FundPrices ==
    /\ fund_pc = "prices"
    /\ \E current_price_data \in PriceResults : FetchReturns("prices", current_price_data)
    /\ fund_progress' = Statuses(fund_progress, Ticker(fund_in.tickers[fund_i + 1]),
                                 <<"Fetching annual EPS for payout">>)
    /\ fund_pc' = "line_items"
    /\ UNCHANGED <<fund_i, fundamental_analysis, fund_error, fund_state,
                   threadVars, llmVars, runVars>>

\* search_line_items returns: the five analyses with their statuses, the
\* overall signal, and the ticker's entry
FundAnalyse ==
    /\ fund_pc = "line_items"
    /\ \E annual_eps_items \in EpsResults : FetchReturns("line_items", annual_eps_items)
    /\ LET ticker == fund_in.tickers[fund_i + 1]
       IN /\ fundamental_analysis' =
                DictPut(fundamental_analysis, ticker,
                        Analyses[fund_in'.provider[ticker], fund_in.end_year])
          /\ fund_progress' = Statuses(fund_progress, Ticker(ticker), AnalysisStatuses)
    /\ fund_i' = fund_i + 1
    /\ fund_pc' = "loop"
    /\ UNCHANGED <<fund_error, fund_state, threadVars, llmVars, runVars>>

\* the fetch the agent waits for raises: the exception leaves the agent
FundFetchRaises ==
    /\ fund_pc \in {"financial_metrics", "dividend_history", "prices", "line_items"}
    /\ fund_pc' = "failed"
    /\ fund_error' = "raised by the fetch"
    /\ UNCHANGED <<fund_in, fund_i, fundamental_analysis, fund_progress, fund_state,
                   cacheVars, threadVars, llmVars, runVars>>

\* after the loop: the message is built, the entry is stored under the
\* agent's own name, the agent reports "Done" with no ticker, the state is
\* returned
FundFinish ==
    /\ fund_pc = "loop"
    /\ fund_i = Len(fund_in.tickers)
    /\ fund_state' = StoreSignals(fund_state, "fundamentals_agent", fundamental_analysis)
    /\ fund_progress' = Statuses(fund_progress, None, <<"Done">>)
    /\ fund_pc' = "done"
    /\ UNCHANGED <<fund_in, fund_i, fundamental_analysis, fund_error,
                   cacheVars, threadVars, llmVars, runVars>>

(***************************************************************************)
(* Specifications.                                                         *)
(***************************************************************************)
Init ==
    /\ cache = EmptyCache
    /\ last = NoCall
    /\ nsets = 0
    /\ was_set = {}
    /\ tpc = [t \in Threads |-> "idle"]
    /\ targs = [t \in Threads |-> NoArgs]
    /\ texisting = [t \in Threads |-> None]
    /\ base = EmptyCache
    /\ llm_pc = "idle"
    /\ llm_args = NoLLMArgs
    /\ attempt = 0
    /\ hist = <<>>
    /\ llm_out = NoOutcome
    /\ factory_calls = 0
    /\ default_calls = 0
    /\ progress_log = <<>>
    /\ default_values = <<>>
    /\ run_pc = "idle"
    /\ selection = None
    /\ graph = NoGraph
    /\ active = {}
    /\ node_status = [n \in AllNodeNames |-> "pending"]
    /\ exec_count = [n \in AllNodeNames |-> 0]
    /\ analyst_signals = <<>>
    /\ messages = <<>>
    /\ run_result = NoResult
    /\ run_no = 0
    /\ prev_cache = EmptyCache
    /\ node_fetches = [n \in AllNodeNames |-> 0]
    /\ fund_pc = "idle"
    /\ fund_in = NoFundInput
    /\ fund_i = 0
    /\ fundamental_analysis = <<>>
    /\ fund_progress = <<>>
    /\ fund_error = "none"
    /\ fund_state = NoState

\* the cache used from one thread
Next == Set

Spec == Init /\ [][Next]_vars

\* the cache read and written through its accessors by any caller
NextGetSet == SetRaw \/ Get

SpecGetSet == Init /\ [][NextGetSet]_vars

\* the cache used from two threads
NextConc ==
    \/ PriorSet
    \/ \E t \in Threads : ThreadInvoke(t)
    \/ \E t \in Threads : ThreadRead(t)
    \/ \E t \in Threads : ThreadWrite(t)

SpecConc == Init /\ [][NextConc]_vars

\* one caller of call_llm
NextLLM == LLMCall \/ LLMAttempt \/ LLMLoopExit

SpecLLM == Init /\ [][NextLLM]_vars

\* one caller of call_llm, the progress sink free to raise
NextSink == LLMCallAnySink \/ LLMAttempt \/ LLMLoopExit

SpecSink == Init /\ [][NextSink]_vars

\* one caller of the cache handing over lists of unchecked records
NextBatch == SetBatch

SpecBatch == Init /\ [][NextBatch]_vars

\* one caller of call_llm for a model without JSON mode
NextExtract == ExtractCall \/ ExtractAttempt

SpecExtract == Init /\ [][NextExtract]_vars

\* one run of the workflow
NextRun ==
    \/ RunBuild
    \/ RunCompile
    \/ RunInvoke
    \/ \E n \in AllNodeNames : NodeStart(n)
    \/ \E n \in AllNodeNames : NodeFetch(n)
    \/ \E n \in AllNodeNames : NodeFinish(n)
    \/ \E n \in AllNodeNames : NodeRaise(n)
    \/ StepAdvance
    \/ RunReturn

SpecRun == Init /\ [][NextRun]_vars

\* calls of run_hedge_fund one after the other in one process
NextRuns == NextRun \/ RunNext

SpecRuns == Init /\ [][NextRuns]_vars

\* one execution of fundamentals_agent
NextFund ==
    \/ FundStart
    \/ FundTicker
    \/ FundMetrics
    \/ FundDividends
    \/ FundPrices
    \/ FundAnalyse
    \/ FundFetchRaises
    \/ FundFinish

SpecFund == Init /\ [][NextFund]_vars

(***************************************************************************)
(* Properties of the cache.                                                *)
(***************************************************************************)
KeysOf(l, key_field) == {l[i][key_field] : i \in DOMAIN l}

\* the stored list of the slot the last set call wrote
LastStored == cache[last.kind][last.ticker]

\* C2: after any sequence of set calls, no stored sequence holds two records
\* with the same value of the kind's uniqueness field.
C2_NoDuplicateKeys ==
    \A kind \in Kinds : \A ticker \in DOMAIN cache[kind] :
        LET l == cache[kind][ticker]
        IN \A i, j \in DOMAIN l :
               i # j => l[i][KeyField(kind)] # l[j][KeyField(kind)]

\* C8: set is idempotent: in the state a set call leaves, the same call again
\* changes no stored sequence of any entity and kind.
C8_SetIdempotent ==
    last.op = "set" =>
        CacheSet(cache, last.kind, last.ticker, last.data) = cache

\* C8 witness: a set call on a non-empty sequence that appended one record and
\* dropped another.
C8_Witness ==
    /\ last.op = "set"
    /\ ~last.existing.isNone
    /\ last.existing.list # <<>>
    /\ Len(LastStored) > Len(last.existing.list)
    /\ Len(LastStored) < Len(last.existing.list) + Len(last.data)

\* C9: after set, the stored sequence is the previous sequence, unchanged and
\* in order, followed by the new records whose uniqueness value was not
\* present before, in their order; with no previous sequence it is the new
\* records verbatim.
C9_MergeResult ==
    last.op = "set" =>
        IF last.existing.isNone
        THEN LastStored = last.data
        ELSE LET prev == last.existing.list
                 kf == KeyField(last.kind)
                 IsNew(r) == \A i \in DOMAIN prev : prev[i][kf] # r[kf]
             IN /\ Len(LastStored) >= Len(prev)
                /\ SubSeq(LastStored, 1, Len(prev)) = prev
                /\ SubSeq(LastStored, Len(prev) + 1, Len(LastStored))
                     = SelectSeq(last.data, IsNew)

\* C9 witness: a set call on an existing non-empty sequence whose new records
\* hold one key already present and one that is not.
C9_Witness ==
    /\ last.op = "set"
    /\ ~last.existing.isNone
    /\ last.existing.list # <<>>
    /\ \E i, j \in DOMAIN last.data :
          /\ last.data[i][KeyField(last.kind)]
                \in KeysOf(last.existing.list, KeyField(last.kind))
          /\ last.data[j][KeyField(last.kind)]
                \notin KeysOf(last.existing.list, KeyField(last.kind))

\* the cache after the two threads' calls ran one after the other, a then b
Serial(a, b) ==
    CacheSet(CacheSet(base, targs[a].kind, targs[a].ticker, targs[a].data),
             targs[b].kind, targs[b].ticker, targs[b].data)

\* C5: two concurrent set calls are serialized: once both have returned, the
\* cache is what running them one after the other, in some order, leaves.
C5_Serialized ==
    (\A t \in Threads : tpc[t] = "done") =>
        cache \in {Serial("t1", "t2"), Serial("t2", "t1")}

\* the last set call was handed a record without the kind's key field
LastHasKeyless ==
    /\ last.op = "set"
    /\ \E i \in DOMAIN last.data : KeyField(last.kind) \notin DOMAIN last.data[i]

\* C13: every set call whose new records hold a record without the
\* uniqueness field signals an error, whatever was cached before (nothing,
\* the empty sequence, a non-empty sequence); such a record is never stored.
C13_KeylessRaises ==
    LastHasKeyless =>
        /\ last.raised
        /\ \A i \in DOMAIN LastStored : KeyField(last.kind) \in DOMAIN LastStored[i]

\* number of records of l whose key field holds k
CountKey(l, key_field, k) == Cardinality({i \in DOMAIN l : l[i][key_field] = k})

\* C14: for every a and b whose keys do not overlap and every prior state,
\* one set call with a followed by b leaves what a set call with a and then
\* a set call with b leave; and no set call adds a further record for a key
\* that was stored before the call.
C14_SplitAndNoSecondRecord ==
    last.op = "set" =>
        LET kf == KeyField(last.kind)
        IN /\ \A n \in 0 .. Len(last.data) :
                LET a == SubSeq(last.data, 1, n)
                    b == SubSeq(last.data, n + 1, Len(last.data))
                IN KeysOf(a, kf) \cap KeysOf(b, kf) = {} =>
                      cache = CacheSet(CacheSet(last.before, last.kind, last.ticker, a),
                                       last.kind, last.ticker, b)
           /\ ~last.existing.isNone =>
                \A k \in KeysOf(last.existing.list, kf) :
                    CountKey(LastStored, kf, k) = CountKey(last.existing.list, kf, k)

\* C14 witness: a set call with two records of different keys, one of them
\* a key already stored, which added the other one.
C14_Witness ==
    /\ last.op = "set"
    /\ ~last.existing.isNone
    /\ Len(last.data) = 2
    /\ Cardinality(KeysOf(last.data, KeyField(last.kind))) = 2
    /\ KeysOf(last.data, KeyField(last.kind))
          \cap KeysOf(last.existing.list, KeyField(last.kind)) # {}
    /\ Len(LastStored) = Len(last.existing.list) + 1

\* C19: get(entity) changes nothing, returns the sequence stored for the
\* entity as it is, and returns None exactly when no set call has stored
\* anything for the entity.
C19_GetReadsOnly ==
    last.op = "get" =>
        /\ cache = last.before
        /\ was_set = last.set_before
        /\ last.result.isNone <=> <<last.kind, last.ticker>> \notin was_set
        /\ ~last.result.isNone => last.result.list = cache[last.kind][last.ticker]

\* C19 witness: a get of a slot that holds two records, another slot of the
\* kind never set.
C19_Witness ==
    /\ last.op = "get"
    /\ ~last.result.isNone
    /\ Len(last.result.list) = 2
    /\ \E t \in Tickers : t \notin DOMAIN cache[last.kind]

(***************************************************************************)
(* Properties of call_llm.                                                 *)
(***************************************************************************)
LLMDone == llm_pc \in {"returned", "raised"}

\* the provider answered no attempt of this call with a valid structured answer
AllFailed == \A i \in DOMAIN hist : hist[i].kind # "valid"

\* C1: call_llm never raises: whatever the provider, the schema, max_retries
\* and the fallback factory, the call ends by returning a value of the schema.
C1_NeverRaises ==
    LLMDone =>
        /\ llm_out.status = "returned"
        /\ Conforms(llm_args.schema, llm_out.value)

\* The part of C3 that counts attempts: a call whose every attempt failed has
\* invoked the provider at most max_retries times, has not touched the
\* fallback while in the loop, and ends only after exactly max_retries
\* invocations, on the fallback path.
AttemptsBeforeFallback ==
    /\ llm_args.max_retries >= 1 => Len(hist) <= llm_args.max_retries
    /\ (llm_pc = "loop" /\ AllFailed) =>
          /\ Len(hist) = attempt
          /\ factory_calls = 0 /\ default_calls = 0
    /\ (LLMDone /\ AllFailed /\ llm_args.max_retries >= 1) =>
          /\ Len(hist) = llm_args.max_retries
          /\ llm_out.source \in {"factory", "default"}
          /\ factory_calls + default_calls = 1

\* C3: with a provider failing on every attempt and max_retries >= 1, the
\* provider is invoked exactly max_retries times and only then call_llm
\* returns the fallback value.
C3_ExactlyMaxRetries ==
    (LLMDone /\ AllFailed /\ llm_args.max_retries >= 1) =>
        /\ Len(hist) = llm_args.max_retries
        /\ llm_out.status = "returned"
        /\ llm_out.source \in {"factory", "default"}

\* A call with max_retries = 3 that ended on the fallback path after three
\* failed attempts, the first two of different kinds.
ThreeFailedAttempts ==
    /\ LLMDone
    /\ llm_args.max_retries = 3
    /\ AllFailed
    /\ Len(hist) = 3
    /\ hist[1].kind # hist[2].kind
    /\ llm_out.source \in {"factory", "default"}

\* C10: when the first k attempts fail and attempt k+1 is a valid structured
\* answer (k < max_retries), call_llm returns the value of attempt k+1 after
\* exactly k+1 provider calls and uses neither the factory nor the default.
C10_SucceedsAfterFailures ==
    (LLMDone /\ hist # <<>> /\ hist[Len(hist)].kind = "valid") =>
        /\ \A i \in 1 .. Len(hist) - 1 : hist[i].kind # "valid"
        /\ Len(hist) <= llm_args.max_retries
        /\ llm_out = Returned("provider", Answer(llm_args.schema, hist[Len(hist)].variant))
        /\ attempt + 1 = Len(hist)
        /\ factory_calls = 0
        /\ default_calls = 0

\* C10 witness: two malformed answers, then a valid one, parsed on the manual
\* path and returned.
C10_Witness ==
    /\ llm_pc = "returned"
    /\ Manual(llm_args.model_info)
    /\ Len(hist) = 3
    /\ hist[1].kind = "malformed" /\ hist[2].kind = "malformed"
    /\ hist[3].kind = "valid"
    /\ llm_out.source = "provider"

\* the last attempt of the call failed
LastAttemptFailed == hist # <<>> /\ hist[Len(hist)].kind # "valid"

\* C11: after the final failed attempt call_llm ends with the result of the
\* fallback factory whenever one was supplied, and with the schema default
\* only when none was; the factory is not called before the final attempt has
\* failed and is called at most once.
C11_FactoryBeforeDefault ==
    /\ llm_pc = "loop" => factory_calls = 0
    /\ factory_calls <= 1
    /\ factory_calls = 1 =>
          /\ LastAttemptFailed
          /\ Len(hist) = llm_args.max_retries
    /\ (LLMDone /\ LastAttemptFailed) =>
          IF llm_args.default_factory # "none"
          THEN /\ llm_out = CallFactory(llm_args.default_factory, llm_args.schema)
               /\ factory_calls = 1
               /\ default_calls = 0
          ELSE /\ llm_out.source = "default"
               /\ factory_calls = 0
               /\ default_calls = 1

\* C11 witness: three failed attempts, then the value of the supplied factory
\* is returned.
C11_Witness ==
    /\ llm_pc = "returned"
    /\ Len(hist) = 3
    /\ AllFailed
    /\ llm_args.default_factory = "conforming"
    /\ llm_out = Returned("factory", Answer(llm_args.schema, "factory"))

\* C12: the schema default gives every field a value: the empty string for a
\* string field, zero for a numeric field, the empty mapping for a mapping
\* field, the first declared option for an enumerated field (a Literal or an
\* Enum class), None for any other field.
C12_DefaultPerKind ==
    default_calls > 0 =>
        /\ DOMAIN default_values = DOMAIN llm_args.schema
        /\ \A f \in DOMAIN llm_args.schema :
            LET k == llm_args.schema[f]
                v == default_values[f]
            IN /\ k = "str" => v = Val("str", "")
               /\ k = "float" => v = Val("float", "0.0")
               /\ k = "int" => v = Val("int", "0")
               /\ k = "dict" => v = Val("dict", "{}")
               /\ k = "literal" => v = Val("option", "__args__[0]")
               /\ k = "enum" => v = Val("member", "first member")
               /\ k \in {"generic", "plain", "any"} => v = PyNone

\* the failed attempts of the call so far
FailedAttempts == {i \in DOMAIN hist : hist[i].kind # "valid"}

\* the call took its terminal fallback
FallbackTaken == factory_calls + default_calls > 0

\* C22: during a call with a label every failed attempt and the terminal
\* fallback are each reported to the progress sink under that label, a failed
\* attempt before the next attempt starts.
C22_AllReported ==
    (llm_pc # "idle" /\ llm_args.agent_name # "none") =>
        /\ \A i \in DOMAIN progress_log : progress_log[i].agent = llm_args.agent_name
        /\ Len(progress_log) = Cardinality(FailedAttempts) + (IF FallbackTaken THEN 1 ELSE 0)

\* what holds of the reports: with a label there is exactly one report per
\* failed attempt, in order and made by the time the attempt is over, and none
\* for the fallback; without a label there is none at all.
ReportsPerFailedAttempt ==
    llm_pc # "idle" =>
        IF llm_args.agent_name = "none"
        THEN progress_log = <<>>
        ELSE /\ Len(progress_log) = Cardinality(FailedAttempts)
             /\ \A i \in DOMAIN progress_log :
                   progress_log[i] = [agent |-> llm_args.agent_name, retry |-> i,
                                      of |-> llm_args.max_retries]

\* C23: the progress sink does not affect control flow: with a sink that
\* raises as with one that does not, the call never ends with the sink's
\* exception, and it ends after a failed attempt only when max_retries
\* attempts were made.
C23_SinkNoEffect ==
    LLMDone =>
        /\ llm_out.source # "progress"
        /\ LastAttemptFailed => Len(hist) = llm_args.max_retries

(***************************************************************************)
(* Properties of fundamentals_agent.                                       *)
(***************************************************************************)
\* the provider returned at least one row of financial metrics
HasMetrics(d) == ~d.financial_metrics.isNone /\ Len(d.financial_metrics.list) > 0

\* the tickers the loop has gone through
TickersDone == {fund_in.tickers[i] : i \in 1 .. fund_i}

\* C17: for every list of tickers and every subset of them without financial
\* metrics, fundamentals_agent does not fail on what the provider returns (it
\* ends early only when a fetch itself raises) and completes, and its entry in
\* analyst_signals has a key for exactly the tickers that had metrics, whether
\* or not prices, dividends and EPS were available for them.
C17_SkipsWithoutFailing ==
    /\ fund_pc = "failed" => fund_error = "raised by the fetch"
    /\ fund_pc = "loop" => fund_i <= Len(fund_in.tickers)
    /\ fund_pc # "idle" =>
          DOMAIN fundamental_analysis = {t \in TickersDone : HasMetrics(fund_in.provider[t])}
    /\ fund_pc = "done" =>
          /\ fund_i = Len(fund_in.tickers)
          /\ fund_state.data.analyst_signals["fundamentals_agent"] = fundamental_analysis

\* C17 witness: the agent completed for two tickers, one without metrics and
\* skipped, the other with metrics but no dividends, no price and no EPS,
\* which has its key.
C17_Witness ==
    /\ fund_pc = "done"
    /\ fund_in.tickers = <<"AAA", "BBB">>
    /\ fund_in.provider["AAA"].financial_metrics = Some(<<>>)
    /\ HasMetrics(fund_in.provider["BBB"])
    /\ fund_in.provider["BBB"].dividend_history = <<>>
    /\ fund_in.provider["BBB"].prices = <<>>
    /\ fund_in.provider["BBB"].line_items = <<>>
    /\ DOMAIN fund_state.data.analyst_signals["fundamentals_agent"] = {"BBB"}

\* C21: the fundamentals step writes only its own key of analyst_signals:
\* after it has run, the entry of every other step is what it was in the
\* state passed, and tickers, date range and metadata are what they were.
C21_OwnKeyOnly ==
    fund_pc # "idle" =>
        LET before == fund_in.state
            others == DOMAIN before.data.analyst_signals \ {"fundamentals_agent"}
        IN /\ DOMAIN fund_state.data.analyst_signals \ {"fundamentals_agent"} = others
           /\ \A k \in others :
                 fund_state.data.analyst_signals[k] = before.data.analyst_signals[k]
           /\ fund_state.data.tickers = before.data.tickers
           /\ fund_state.data.start_year = before.data.start_year
           /\ fund_state.data.end_year = before.data.end_year
           /\ fund_state.metadata = before.metadata

\* C21 witness: the step completed on a state that held another step's entry
\* and a stale entry of its own, and replaced its own.
C21_Witness ==
    /\ fund_pc = "done"
    /\ fund_in.tickers # <<>>
    /\ fund_in.state.data.analyst_signals =
          [technicals_agent |-> "analysis", fundamentals_agent |-> "stale"]
    /\ fund_state.data.analyst_signals["technicals_agent"] = "analysis"
    /\ fund_state.data.analyst_signals["fundamentals_agent"] = fundamental_analysis
    /\ fundamental_analysis # <<>>

(***************************************************************************)
(* Properties of the workflow graph and of a run.                          *)
(***************************************************************************)
\* the analysis nodes of the built graph
GraphAnalysts == graph.nodes \ {"start_node", "risk_management_agent", "portfolio_manager"}

\* a node has completed: it is not part of an unfinished execution
Completed(n) == exec_count[n] > 0 /\ ~(n \in active /\ node_status[n] # "done")

\* C4: in every run and every interleaving of the selected analysis nodes, the
\* risk-aggregation node does not start before every analysis node of the
\* graph has completed and written its own entry into analyst_signals.
C4_RiskAfterAnalysts ==
    exec_count["risk_management_agent"] > 0 =>
        \A a \in GraphAnalysts :
            /\ Completed(a)
            /\ a \in DOMAIN analyst_signals

\* C4 witness: risk management is executing in a run with three analysis
\* nodes, all of which have written their entry.
C4_Witness ==
    /\ run_pc = "running"
    /\ node_status["risk_management_agent"] = "running"
    /\ Cardinality(GraphAnalysts) = 3
    /\ GraphAnalysts \subseteq DOMAIN analyst_signals

\* the registered identifiers of a selection list
RegisteredOf(l) == {l[i] : i \in DOMAIN l} \cap Registered

\* C6: the analysis nodes of the built graph are: all registered steps for a
\* null selection; exactly the registered identifiers of the selection when
\* it holds at least one; all registered steps for a non-empty selection with
\* no registered identifier; none for the empty list.
C6_SelectedAnalysts ==
    run_pc # "idle" =>
        IF selection.isNone
        THEN GraphAnalysts = AnalystNodeNames
        ELSE LET reg == RegisteredOf(selection.list)
             IN /\ reg # {} => GraphAnalysts = {NodeName(k) : k \in reg}
                /\ (reg = {} /\ selection.list # <<>>) => GraphAnalysts = AnalystNodeNames
                /\ selection.list = <<>> => GraphAnalysts = {}

\* C6 witness: a graph built from a selection of one registered and one
\* unregistered identifier, holding the registered one only.
C6_Witness ==
    /\ run_pc = "built"
    /\ selection = Some(<<"unknown", "technicals">>)
    /\ GraphAnalysts = {"technicals_agent"}

\* the targets of the edges leaving the nodes of S
Succ(g, S) == {n \in g.nodes \cup {END} : \E m \in S : <<m, n>> \in g.edges}

\* the nodes reachable from S along edges, S included
RECURSIVE ReachFrom(_, _)
ReachFrom(g, S) ==
    LET T == S \cup Succ(g, S)
    IN IF T = S THEN S ELSE ReachFrom(g, T)

\* C7: for every selection the built graph has exactly one entry node, exactly
\* one exit (portfolio_manager, leading to END), no cycle, and every node lies
\* on a path from the entry to portfolio_manager.
C7_GraphShape ==
    run_pc # "idle" =>
        /\ {n \in graph.nodes : ~\E e \in graph.edges : e[2] = n} = {graph.entry_point}
        /\ {e \in graph.edges : e[2] = END} = {<<"portfolio_manager", END>>}
        /\ {e \in graph.edges : e[1] = "portfolio_manager"} = {<<"portfolio_manager", END>>}
        /\ \A n \in graph.nodes : n \notin ReachFrom(graph, Succ(graph, {n}))
        /\ \A n \in graph.nodes :
              /\ n \in ReachFrom(graph, {graph.entry_point})
              /\ "portfolio_manager" \in ReachFrom(graph, {n})

\* C7 witness: the graph built from the empty list, with the entry wired
\* straight to risk management.
C7_Witness ==
    /\ run_pc = "built"
    /\ selection = Some(<<>>)
    /\ graph.nodes = {"start_node", "risk_management_agent", "portfolio_manager"}
    /\ <<"start_node", "risk_management_agent">> \in graph.edges

\* the edges leaving a node of the built graph
OutEdges(n) == {e \in graph.edges : e[1] = n}

\* C15: in every built graph the entry node has one out-edge per analysis
\* node and no other, except that with no analysis node, and only then, it
\* has the direct edge to risk management; every analysis node has exactly
\* one out-edge, to risk management; risk management has exactly one
\* out-edge, to the portfolio manager.
C15_OutEdges ==
    run_pc # "idle" =>
        /\ {e \in OutEdges("start_node") : e[2] \in GraphAnalysts}
              = {<<"start_node", a>> : a \in GraphAnalysts}
        /\ GraphAnalysts # {} => Cardinality(OutEdges("start_node")) = Cardinality(GraphAnalysts)
        /\ <<"start_node", "risk_management_agent">> \in graph.edges <=> GraphAnalysts = {}
        /\ GraphAnalysts = {} => OutEdges("start_node") = {<<"start_node", "risk_management_agent">>}
        /\ \A a \in GraphAnalysts : OutEdges(a) = {<<a, "risk_management_agent">>}
        /\ OutEdges("risk_management_agent") = {<<"risk_management_agent", "portfolio_manager">>}

\* C15 witness: a graph built with two analysis nodes, the entry node having
\* two out-edges.
C15_Witness ==
    /\ run_pc = "built"
    /\ Cardinality(GraphAnalysts) = 2
    /\ Cardinality(OutEdges("start_node")) = 2
    /\ <<"start_node", "risk_management_agent">> \notin graph.edges

\* invoke has returned the final state
RunCompleted == run_pc \in {"completed", "returned"}

\* C16: in every completed run, whatever the number of analysis nodes, risk
\* management and the portfolio manager have each executed exactly once, and
\* the portfolio manager starts only after risk management has completed.
C16_RiskThenPortfolioOnce ==
    /\ RunCompleted =>
          /\ exec_count["risk_management_agent"] = 1
          /\ exec_count["portfolio_manager"] = 1
    /\ exec_count["portfolio_manager"] > 0 => Completed("risk_management_agent")

\* C16 witness: a completed run with three analysis nodes.
C16_Witness ==
    /\ run_pc = "completed"
    /\ Cardinality(GraphAnalysts) = 3
    /\ exec_count["risk_management_agent"] = 1
    /\ exec_count["portfolio_manager"] = 1

\* the nodes of the supersteps after the current one
LaterNodes == ReachFrom(graph, Succ(graph, active)) \ {END}

\* C18: if a node raises during a run, the run fails and run_hedge_fund
\* returns no result mapping; the node was executed once only, and no node of
\* a later superstep executes.
C18_RaisePropagates ==
    \A n \in AllNodeNames :
        node_status[n] = "raised" =>
            /\ run_pc = "failed"
            /\ run_result = NoResult
            /\ exec_count[n] = 1
            /\ \A m \in LaterNodes : exec_count[m] = 0

\* C18 witness: an analysis node raised in a run with three analysis nodes,
\* after another one had returned.
C18_Witness ==
    /\ run_pc = "failed"
    /\ Cardinality(GraphAnalysts) = 3
    /\ \E n \in GraphAnalysts : node_status[n] = "raised"
    /\ \E m \in GraphAnalysts : node_status[m] = "done"

\* the identifiers of a selection list
IdsOf(l) == {l[i] : i \in DOMAIN l}

\* C20: the graph is determined by the set of selected identifiers: every
\* selection list holding the same identifiers as the one the graph was built
\* from, in any order, gives the same node set and the same edge set.
C20_OrderIrrelevant ==
    (run_pc # "idle" /\ ~selection.isNone) =>
        \A other \in Selections :
            (~other.isNone /\ IdsOf(other.list) = IdsOf(selection.list)) =>
                /\ BuildAgentWorkflow(other).nodes = graph.nodes
                /\ BuildAgentWorkflow(other).edges = graph.edges

\* C20 witness: a graph built from two registered identifiers and the
\* unregistered one, equal to the graph of the two in the other order.
C20_Witness ==
    /\ run_pc = "built"
    /\ selection = Some(<<"technicals", "unknown", "fundamentals">>)
    /\ graph = BuildAgentWorkflow(Some(<<"fundamentals", "technicals">>))
    /\ Cardinality(GraphAnalysts) = 2

\* the first node of the run has not started yet
RunJustStarted == run_pc = "running" /\ \A n \in AllNodeNames : exec_count[n] = 0

\* C24: the only state shared by two runs made one after the other is the
\* cache: the second run starts with an empty analyst_signals and with the
\* initial message alone, whatever the first run wrote, and with every cache
\* entry the first run left.
C24_OnlyCacheOutlivesRun ==
    (run_no >= 1 /\ RunJustStarted) =>
        /\ analyst_signals = <<>>
        /\ messages = <<[name |-> "human", content |-> "initial_message"]>>
        /\ \A kind \in Kinds :
              \A ticker \in DOMAIN prev_cache[kind] :
                  /\ ticker \in DOMAIN cache[kind]
                  /\ cache[kind][ticker] = prev_cache[kind][ticker]

\* C24 witness: a second run starts after a first run in which the
\* fundamentals agent ran and stored financial metrics in the cache.
C24_Witness ==
    /\ run_no = 1
    /\ RunJustStarted
    /\ analyst_signals = <<>>
    /\ "AAA" \in DOMAIN prev_cache["financial_metrics"]
    /\ cache["financial_metrics"]["AAA"] = <<Rec("financial_metrics", "d1", "a")>>

\* C25: a set call for one entity and one kind leaves the stored sequence of
\* every other entity and of every other kind as it was, the kinds that use
\* the same uniqueness field (financial metrics and line items) included.
C25_OtherSlotsUnchanged ==
    last.op = "set" =>
        \A kind \in CacheKinds, ticker \in Tickers :
            <<kind, ticker>> # <<last.kind, last.ticker>> =>
                CacheGet(cache, kind, ticker) = CacheGet(last.before, kind, ticker)

\* C25 witness: financial metrics of a ticker were set and stored while line
\* items of the same ticker, keyed by the same field, were in the cache.
C25_Witness ==
    /\ last.op = "set"
    /\ last.kind = "financial_metrics"
    /\ ~last.raised
    /\ cache # last.before
    /\ CacheGet(last.before, "line_items", last.ticker) # None
    /\ cache["line_items"][last.ticker] # cache["financial_metrics"][last.ticker]

\* the response of the last attempt made
LastResp == hist[Len(hist)]

\* the first fenced block of a text: what stands between the first ```json
\* and the first ``` after it, if both are there
HasBlock(text) ==
    \E i, j \in DOMAIN text :
        i < j /\ text[i] = "fence_json" /\ text[j] \in {"fence", "fence_json"}

BlockOf(text) ==
    LET i == CHOOSE i \in DOMAIN text :
                 text[i] = "fence_json" /\ \A k \in 1 .. i - 1 : text[k] # "fence_json"
        j == CHOOSE j \in i + 1 .. Len(text) :
                 /\ text[j] \in {"fence", "fence_json"}
                 /\ \A k \in i + 1 .. j - 1 : text[k] \notin {"fence", "fence_json"}
    IN SubSeq(text, i + 1, j - 1)

BlockParses(text) == HasBlock(text) /\ JsonLoads(BlockOf(text)).ok

\* C26: on the manual path the reasoning blocks are removed first; the first
\* fenced block of what remains is parsed and its value returned when that
\* succeeds; only without such a block, or when its parse fails, the whole
\* remaining text is parsed; when both fail the attempt is a failure and the
\* loop goes on to the next attempt while one is left.
C26_ExtractionOrder ==
    (hist # <<>> /\ "content" \in DOMAIN LastResp) =>
        LET text == StripThink(LastResp.content)
            parsed == LastResp.parsed
        IN /\ BlockParses(text) => parsed = JsonLoads(BlockOf(text)).value
           /\ (~BlockParses(text) /\ JsonLoads(text).ok) => parsed = JsonLoads(text).value
           /\ (~BlockParses(text) /\ ~JsonLoads(text).ok) =>
                 /\ parsed = PyNone
                 /\ llm_out.status = "returned" => llm_out.source # "provider"
                 /\ Len(hist) < llm_args.max_retries =>
                       (llm_pc = "loop" /\ attempt = Len(hist))
                 /\ Len(hist) = llm_args.max_retries => llm_pc # "loop"

\* C26 witness: the text holds a reasoning block with a fenced object in it
\* and no JSON after it, both parses failed and a second attempt was made.
C26_Witness ==
    /\ Len(hist) = 2
    /\ "content" \in DOMAIN LastResp
    /\ LastResp.content = <<"<think>", "obj", "</think>", "word">>
    /\ LastResp.parsed = PyNone
    /\ llm_out.status = "returned"
    /\ llm_out.source = "factory"

\* a fenced block that parses is returned though text stands around it
C26_BlockReturned ==
    /\ hist # <<>>
    /\ "content" \in DOMAIN LastResp
    /\ LastResp.content = <<"word", "fence_json", "obj", "fence">>
    /\ llm_out = Returned("provider", Answer(SignalSchema, "answer1"))

\* the block does not parse and the whole text does
C26_WholeParsed ==
    /\ hist # <<>>
    /\ "content" \in DOMAIN LastResp
    /\ LastResp.content = <<"str_open", "fence_json", "fence", "str_close">>
    /\ LastResp.parsed = JsonObject("wrapped")

\* the sub-signals of an entry of fundamental_analysis, as its reasoning has them
SubSignals(entry) == entry.reasoning

\* how many sub-signals of an entry are x
SubCount(entry, x) ==
    Cardinality({f \in DOMAIN SubSignals(entry) : SubSignals(entry)[f] = x})

\* C27: every entry of fundamental_analysis has a signal that is bullish,
\* bearish or neutral and a confidence from 0 to 100, whatever metric values
\* were present, absent or null; the signal is bullish when the bullish
\* sub-signals outnumber the bearish ones, bearish in the opposite case and
\* neutral on a tie.
C27_SignalAndConfidence ==
    \A t \in DOMAIN fundamental_analysis :
        LET entry == fundamental_analysis[t]
            bull == SubCount(entry, "bullish")
            bear == SubCount(entry, "bearish")
        IN /\ entry.signal \in {"bullish", "bearish", "neutral"}
           /\ entry.confidence \in 0 .. 100
           /\ bull > bear => entry.signal = "bullish"
           /\ bear > bull => entry.signal = "bearish"
           /\ bull = bear => entry.signal = "neutral"

\* C27 witness: an entry with as many bullish as bearish sub-signals, one at
\* least of each, computed from metrics whose values are partly null.
C27_Witness ==
    \E t \in DOMAIN fundamental_analysis :
        /\ SubCount(fundamental_analysis[t], "bullish") = SubCount(fundamental_analysis[t], "bearish")
        /\ SubCount(fundamental_analysis[t], "bullish") >= 1
        /\ fundamental_analysis[t].signal = "neutral"
        /\ fund_in.provider[t].financial_metrics.list[1] = MixedMetrics

\* entries with a bullish and with a bearish signal
C27_AllSignals ==
    /\ \E t \in DOMAIN fundamental_analysis : fundamental_analysis[t].signal = "bullish"
    /\ \E t \in DOMAIN fundamental_analysis : fundamental_analysis[t].signal = "bearish"

\* the state of the run a position of run_hedge_fund stands for
RunState(pc) ==
    CASE pc = "idle" -> "None"
      [] pc = "built" -> "Built"
      [] pc = "compiled" -> "Compiled"
      [] pc = "running" -> "Running"
      [] pc \in {"completed", "returned"} -> "Completed"
      [] pc = "failed" -> "Failed"

\* the moves from one state of a run to the next, and the start of a new run
RunMoves ==
    {<<"None", "Built">>, <<"Built", "Compiled">>, <<"Compiled", "Running">>,
     <<"Running", "Completed">>, <<"Running", "Failed">>,
     <<"Completed", "None">>, <<"Failed", "None">>}

\* C28: every run goes from Built to Compiled to Running and from there to
\* Completed or to Failed, one state at a time; a node starts to execute only
\* in a run that is Running, so after the graph was built and compiled; and a
\* node that raises takes the run from Running to Failed.
C28_RunStates ==
    [][/\ RunState(run_pc') # RunState(run_pc) =>
             <<RunState(run_pc), RunState(run_pc')>> \in RunMoves
       /\ \A n \in AllNodeNames :
             exec_count'[n] > exec_count[n] =>
                 /\ run_pc = "running"
                 /\ graph = BuildAgentWorkflow(selection)
                 /\ GraphValid(graph)
       /\ \A n \in AllNodeNames :
             (node_status'[n] = "raised" /\ node_status[n] # "raised") =>
                 (run_pc = "running" /\ run_pc' = "failed")]_vars

\* C28 witness: a second run has failed while a node of it was executing,
\* after a first run that went through all its states.
C28_Witness ==
    /\ run_no = 1
    /\ run_pc = "failed"
    /\ \E n \in AllNodeNames : node_status[n] = "raised" /\ exec_count[n] = 1

\* C28: a run that completed and returned to its caller
C28_Completed == run_pc = "returned" /\ exec_count["portfolio_manager"] = 1

\* The part of C29 about what is called: with max_retries <= 0 the provider
\* is never invoked, the factory is never called, and the call ends in
\* create_default_response, called once.
ZeroRetriesNoProvider ==
    llm_args.max_retries <= 0 =>
        /\ hist = <<>>
        /\ factory_calls = 0
        /\ LLMDone => (default_calls = 1 /\ llm_out.source = "default")

\* C29: call_llm with max_retries <= 0 never invokes the provider and returns
\* the default derived from the schema, also when a fallback factory was
\* passed, which is not called.
C29_ZeroRetriesDefault ==
    (LLMDone /\ llm_args.max_retries <= 0) =>
        /\ hist = <<>>
        /\ factory_calls = 0
        /\ llm_out = Returned("default", DefaultValues(llm_args.schema))

\* C30: a set call that signals an error leaves the cache as it was before
\* the call: the stored sequence of its own entity and kind, and of every
\* other, is unchanged, and nothing of the new records is stored.
C30_ErrorLeavesCache ==
    (last.op = "set" /\ last.raised) =>
        /\ cache = last.before
        /\ \A kind \in CacheKinds, ticker \in Tickers :
              CacheGet(cache, kind, ticker) = CacheGet(last.before, kind, ticker)

\* C30 witness: a set call raised on its second record after a first record
\* with a key that was not stored; the stored sequence is the one of before.
C30_Witness ==
    /\ last.op = "set"
    /\ last.raised
    /\ Len(last.data) = 2
    /\ KeyField(last.kind) \in DOMAIN last.data[1]
    /\ KeyField(last.kind) \notin DOMAIN last.data[2]
    /\ \A i \in DOMAIN LastStored :
          /\ KeyField(last.kind) \in DOMAIN LastStored[i]
          /\ LastStored[i][KeyField(last.kind)] # last.data[1][KeyField(last.kind)]
    /\ LastStored = last.before[last.kind][last.ticker]

\* the content of the last message of the final state
LastContent == messages[Len(messages)].content

\* the one modelled content that is the text of a JSON object with a
\* decisions field
HasDecisions(content) == content = "{\"decisions\": {\"AAA\": \"buy\"}}"

\* C31: a run that completes returns to its caller and does not raise, also
\* when the last message is no text, is text that is no JSON object, or is an
\* object without a decisions field: decisions is then None, and the result
\* holds the whole analyst_signals mapping of the final state.
C31_NoDecisionsNoRaise ==
    /\ run_pc = "failed" => \E n \in AllNodeNames : node_status[n] = "raised"
    /\ RunCompleted => \A n \in AllNodeNames : node_status[n] # "raised"
    /\ run_pc = "returned" =>
          /\ run_result.returned
          /\ run_result.analyst_signals = analyst_signals
          /\ GraphAnalysts \cup {"risk_management_agent"} \subseteq DOMAIN run_result.analyst_signals
          /\ ~HasDecisions(LastContent) => run_result.decisions = "None"
          /\ HasDecisions(LastContent) => run_result.decisions # "None"

\* C31 witness: a run with three analysis nodes whose portfolio manager
\* emitted text that is no JSON has returned decisions None.
C31_Witness ==
    /\ run_pc = "returned"
    /\ LastContent = "not json"
    /\ run_result.decisions = "None"
    /\ Cardinality(DOMAIN run_result.analyst_signals) >= 4

\* runs returned with a JSON list, with an object without decisions and
\* with a content that is no text: decisions None in each
C31_OtherContents ==
    /\ run_pc = "returned"
    /\ LastContent \in {"[]", "{\"AAA\": \"buy\"}", NonTextContent}
    /\ run_result.decisions = "None"

====
